---- MODULE Spec2Model ----
\* Frame lifecycle and CPU/GPU synchronisation of DX12Renderer
\* (DX12Renderer/source/main.cpp): Render, Resize, Signal, WaitForFenceValue,
\* Flush and the window procedure that dispatches them, together with the
\* command queue, the fence and the swap chain they talk to.
EXTENDS Integers, Sequences, FiniteSets, TLC

\* ------------------------------------------------------------------ bounds
\* Largest value g_FenceValue may take; a handler that would signal past it
\* is not started.
MaxFence == 5
\* Most arguments after the program name on a command line.
MaxArgs == 2
\* Most windows one GameBase object asks the Application for.
MaxWindows == 2
\* Largest g_FenceValue at which the window procedure still takes a message
\* in a run that starts before wWinMain's initialisation.
MaxStartupFence == 2
\* Most adapters the DXGI factory enumerates.
MaxAdapters == 3

\* --------------------------------------------------------------- constants
g_NumFrames == 2
DefaultWidth == 1280
DefaultHeight == 720

Slots == 0 .. (g_NumFrames - 1)

\* Client rectangles the window system may report in WM_SIZE.
ReqSizes == { <<0, 0>>, <<1, 1>>, <<DefaultWidth, 0>>, <<DefaultWidth, DefaultHeight>> }

\* An empty ComPtr and a ComPtr to image i of the swap chain's image set.
NullHandle == [valid |-> FALSE, image |-> 0]
ImageHandle(i) == [valid |-> TRUE, image |-> i]

\* DXGI_PRESENT_ALLOW_TEARING or 0, as names.
AllowTearing == "ALLOW_TEARING"
NoFlags == "NONE"

NoCall == [op |-> "none", w |-> 0, h |-> 0]

\* A 64-bit count as four 16-bit limbs, most significant first.
Limb == 65535
\* main.cpp:601  std::chrono::milliseconds::max(), 0x7FFFFFFFFFFFFFFF
MillisecondsMax == << 32767, Limb, Limb, Limb >>

\* Rectangles of the environment: the display, the window as created by
\* CreateWindow, and the window after the user has stretched it until its
\* client area covers the display.
MonitorRect == [left |-> 0, top |-> 0, right |-> 1920, bottom |-> 1080]
CreatedRect == [left |-> 312, top |-> 160, right |-> 1608, bottom |-> 919]
DraggedRect == [left |-> -8, top |-> -31, right |-> 1928, bottom |-> 1088]
\* What the frame of a WS_OVERLAPPEDWINDOW adds around the client area.
FrameWidth == 16
FrameHeight == 39

\* main.cpp:605  static_cast<DWORD>(duration.count()): the low 32 bits.
TimeoutMs_Saturate(d) == IF d[1] # 0 \/ d[2] # 0 THEN << Limb, Limb >> ELSE << d[3], d[4] >>
TimeoutMs(d) == << d[3], d[4] >>
\* winbase.h  INFINITE, 0xFFFFFFFF
Infinite == << Limb, Limb >>

\* What WaitForFenceValue learns from ::WaitForSingleObject.
NotCalled == "not called"
WaitObject0 == "WAIT_OBJECT_0"
WaitTimeoutStatus == "WAIT_TIMEOUT"

\* main.cpp:600  WaitForFenceValue is declared void, and main.cpp:605 drops
\* the status of ::WaitForSingleObject: whatever the status, the caller is
\* handed the same (empty) result.
WaitResult(status) == "void"

\* main.cpp:604  the value the event is registered for.
EventValue_Next(fenceValue) == fenceValue + 1
EventValue(fenceValue) == fenceValue

\* main.cpp:787, 808  window styles
OverlappedWindow == "WS_OVERLAPPEDWINDOW"
Borderless == "WS_OVERLAPPEDWINDOW & ~(CAPTION|SYSMENU|THICKFRAME|MINIMIZEBOX|MAXIMIZEBOX)"

VARIABLES
    pc,                       \* statement the CPU thread executes next
    call,                     \* handler the window procedure last entered
    ops,                      \* API operations that handler has issued so far
    renders,                  \* number of Render calls entered
    g_ClientWidth, g_ClientHeight,
    g_VSync, g_TearingSupported,
    g_CurrentBackBufferIndex,
    g_FenceValue,
    g_FrameFenceValues,
    g_BackBuffers,
    g_CommandList,
    rtvHeap,                  \* render-target view i -> image it was built for
    commandAllocator,         \* Render's local: slot of the allocator in use
    backBuffer,               \* Render's local ComPtr copy
    fenceValueForSignal,      \* Flush's local: the value its Signal returned
    waitValue,                \* WaitForFenceValue's fenceValue argument
    loopI,                    \* loop index of Resize / UpdateRenderTargetViews
    gpuQueue,                 \* command queue: work submitted, not yet retired
    completedValue,           \* fence->GetCompletedValue()
    eventPending,             \* values registered by SetEventOnCompletion, not yet reached
    fenceEvent,               \* the auto-reset event g_FenceEvent is signalled
    scIndex,                  \* swap chain's GetCurrentBackBufferIndex()
    scSize,                   \* size of the swap chain's images
    lastPresent,              \* arguments of the latest Present call
    imageState,               \* resource state of each swap-chain image on the GPU
    waitDuration,             \* WaitForFenceValue's duration argument (64-bit count)
    waitStatus,               \* what ::WaitForSingleObject returned to WaitForFenceValue
    g_Fullscreen,
    g_WindowRect,
    winRect,                  \* the window's rectangle, as ::GetWindowRect reports it
    winStyle,                 \* the window's GWL_STYLE
    quitPosted,               \* ::PostQuitMessage has been called
    sizePending,              \* a WM_SIZE for the window's new client area is being sent
    argv,                     \* the command line, split by CommandLineToArgvW
    argI,                     \* ParseCommandLineArguments' loop index i
    g_UseWarp,
    m_pWindow,                \* GameBase: the window it holds, NoWindow when empty
    m_Width, m_Height, m_vSync,
    cpuSupport,               \* what DirectX::XMVerifyCPUSupport() reports on this machine
    windows,                  \* windows the Application has created, by handle
    gameOps,                  \* calls the latest GameBase method made
    gameResult,               \* what the latest GameBase method returned
    adapters,                 \* what EnumAdapters1 enumerates, in order
    adapterI,                 \* GetAdapter's loop index i (1-based)
    maxDedicatedVideoMemory,
    dxgiAdapter4,             \* GetAdapter's result
    g_IsInitialized,
    startupI,                 \* number of wWinMain's creation statements that have run
    message,                  \* latest message WndProc passed to ::DefWindowProcW
    scDesc,                   \* the swap chain's image count, format and creation flags
    swapChainDesc             \* Resize's local: what GetDesc filled in

cpuVars == << pc, call, ops, renders, g_ClientWidth, g_ClientHeight, g_VSync,
              g_TearingSupported, g_CurrentBackBufferIndex, g_FenceValue,
              g_FrameFenceValues, g_BackBuffers, g_CommandList, rtvHeap,
              commandAllocator, backBuffer, fenceValueForSignal, waitValue, loopI >>
gpuVars == << gpuQueue, completedValue, eventPending, fenceEvent >>
scVars == << scIndex, scSize, lastPresent >>
winVars == << g_Fullscreen, g_WindowRect, winRect, winStyle, quitPosted, sizePending >>
argVars == << argv, argI, g_UseWarp >>
gameVars == << m_pWindow, m_Width, m_Height, m_vSync, cpuSupport, windows, gameOps, gameResult >>
adapterVars == << adapters, adapterI, maxDedicatedVideoMemory, dxgiAdapter4 >>
startVars == << g_IsInitialized, startupI, message >>
descVars == << scDesc, swapChainDesc >>
otherVars == << gameVars, adapterVars, startVars, descVars >>
vars == << cpuVars, gpuVars, scVars, imageState, waitDuration, waitStatus, winVars, argVars,
           otherVars >>

\* ------------------------------------------------------------ pure helpers
SetMax(S) == CHOOSE x \in S : \A y \in S : y <= x

Max(a, b) == IF a >= b THEN a ELSE b

\* Items of the command queue.  A batch carries the commands of the submitted
\* list and the position of the next one the GPU will execute.
Batch(slot, cmds) == [kind |-> "batch", slot |-> slot, value |-> 0, cmds |-> cmds, next |-> 1]
PresentItem(slot) == [kind |-> "present", slot |-> slot, value |-> 0, cmds |-> << >>, next |-> 1]
SignalItem(v) == [kind |-> "signal", slot |-> 0, value |-> v, cmds |-> << >>, next |-> 1]

\* main.cpp:689-714  what Render records: the transition of the back buffer
\* to RENDER_TARGET, the clear through the view at the current index, and the
\* transition back to PRESENT.
Barrier(image, before, after) == [cmd |-> "barrier", image |-> image, before |-> before, after |-> after]
Clear(image) == [cmd |-> "clear", image |-> image, before |-> "RENDER_TARGET", after |-> "RENDER_TARGET"]

RecordedCommands_NoRestore(buffer, view) ==
    << Barrier(buffer.image, "PRESENT", "RENDER_TARGET"), Clear(view.image) >>
RecordedCommands(buffer, view) ==
    << Barrier(buffer.image, "PRESENT", "RENDER_TARGET"),
       Clear(view.image),
       Barrier(buffer.image, "RENDER_TARGET", "PRESENT") >>

\* The effect of one command on the images' resource states.
Executed(cmd, states) ==
    IF cmd.cmd = "barrier" THEN [states EXCEPT ![cmd.image] = cmd.after] ELSE states

\* main.cpp:533-535  CreateCommandList closes the list it has just created.
CreatedListState_Open == "recording"
CreatedListState == "closed"

\* main.cpp:586  ++fenceValue
NextFenceValue_Skip(fv) == fv + 2
NextFenceValue_Wrap(fv) == (fv + 1) % 3
NextFenceValue(fv) == fv + 1

\* main.cpp:603  fence->GetCompletedValue() < fenceValue
NeedsWait_OffByOne(completed, value) == completed + 1 < value
NeedsWait_Never(completed, value) == FALSE
NeedsWait(completed, value) == completed < value

\* main.cpp:726  UINT syncInterval = g_VSync ? 1 : 0
SyncInterval_Always1(vsync) == 1
SyncInterval(vsync) == IF vsync THEN 1 ELSE 0

\* main.cpp:728  g_TearingSupported && !g_VSync ? DXGI_PRESENT_ALLOW_TEARING : 0
PresentFlags_IgnoreVSync(tearing, vsync) == IF tearing THEN AllowTearing ELSE NoFlags
PresentFlags(tearing, vsync) == IF tearing /\ ~vsync THEN AllowTearing ELSE NoFlags

\* main.cpp:746  g_ClientWidth != width || g_ClientHeight != height
SizeDiffers_Always(cw, ch, w, h) == TRUE
SizeDiffers(cw, ch, w, h) == cw # w \/ ch # h

\* main.cpp:748  std::max(1u, width)
ClampDim_None(x) == x
ClampDim(x) == Max(1, x)

\* main.cpp:731  the slot whose watermark receives Signal's result
WatermarkSlot_Requeried(cur, sc) == sc
WatermarkSlot(cur, sc) == cur

\* main.cpp:735 / 767  g_SwapChain->GetCurrentBackBufferIndex()
QueryIndex_Increment(cur, sc) == (cur + 1) % g_NumFrames
QueryIndex(cur, sc) == sc

\* main.cpp:758  g_BackBuffers[i].Reset()
ReleasedHandle_Kept(h) == h
ReleasedHandle(h) == NullHandle

\* Number of references the program holds on swap-chain images.
HeldReferences ==
    Cardinality({ i \in Slots : g_BackBuffers[i].valid })
      + (IF backBuffer.valid THEN 1 ELSE 0)

\* ------------------------------------------------------------------- Init
\* State when wWinMain sets g_IsInitialized (main.cpp:894-933).
\* main.cpp:412-424  the description CreateSwapChain creates the swap chain
\* with: bufferCount images, DXGI_FORMAT_R8G8B8A8_UNORM, and the tear-allowed
\* creation flag when CheckTearingSupport() reports support.
CreationAllowTearing == "DXGI_SWAP_CHAIN_FLAG_ALLOW_TEARING"
CreationNoFlags == "0"
CreatedDesc(bufferCount, tearing) ==
    [count |-> bufferCount, format |-> "DXGI_FORMAT_R8G8B8A8_UNORM",
     flags |-> IF tearing THEN CreationAllowTearing ELSE CreationNoFlags]

\* main.cpp:762  DXGI_SWAP_CHAIN_DESC swapChainDesc = {}
NoDesc == [count |-> 0, format |-> "DXGI_FORMAT_UNKNOWN", flags |-> CreationNoFlags]

InitState ==
    /\ call = NoCall
    /\ ops = << >>
    /\ renders = 0
    /\ g_ClientWidth = DefaultWidth
    /\ g_ClientHeight = DefaultHeight
    /\ g_VSync = TRUE
    /\ g_TearingSupported \in BOOLEAN
    /\ scIndex \in Slots
    /\ g_CurrentBackBufferIndex = scIndex
    /\ g_FenceValue = 0
    /\ g_FrameFenceValues = [i \in Slots |-> 0]
    /\ g_BackBuffers = [i \in Slots |-> ImageHandle(i)]
    /\ rtvHeap = [i \in Slots |-> ImageHandle(i)]
    /\ g_CommandList = [state |-> CreatedListState, alloc |-> g_CurrentBackBufferIndex, cmds |-> << >>]
    /\ commandAllocator = 0
    /\ backBuffer = NullHandle
    /\ fenceValueForSignal = 0
    /\ waitValue = 0
    /\ loopI = 0
    /\ gpuQueue = << >>
    /\ completedValue = 0
    /\ eventPending = { }
    /\ fenceEvent = FALSE
    /\ scSize = << DefaultWidth, DefaultHeight >>
    /\ lastPresent = [valid |-> FALSE, sync |-> 0, flags |-> NoFlags]
    /\ scDesc = CreatedDesc(g_NumFrames, g_TearingSupported)
    /\ swapChainDesc = NoDesc
    /\ imageState = [i \in Slots |-> "PRESENT"]
    /\ waitDuration = MillisecondsMax
    /\ waitStatus = NotCalled
    /\ g_Fullscreen = FALSE
    /\ winRect = CreatedRect
    /\ g_WindowRect = winRect
    /\ winStyle = OverlappedWindow
    /\ quitPosted = FALSE
    /\ sizePending = FALSE
    /\ argI = 0
    /\ g_UseWarp = FALSE

\* No GameBase object has been initialised yet.
NoWindow == 0
GameConstructed ==
    /\ m_pWindow = NoWindow
    /\ windows = << >>
    /\ gameOps = << >>
    /\ gameResult = "none"

GameIdle ==
    /\ GameConstructed
    /\ m_Width = DefaultWidth /\ m_Height = DefaultHeight /\ m_vSync = TRUE
    /\ cpuSupport = TRUE

\* GetAdapter has not been entered.
NoAdapter == [kind |-> "none", index |-> 0]
AdapterIdle ==
    /\ adapters = << >>
    /\ adapterI = 1
    /\ maxDedicatedVideoMemory = 0
    /\ dxgiAdapter4 = NoAdapter

\* main.cpp:897-931  what wWinMain creates before it sets g_IsInitialized, in
\* the order of its statements.
StartupOrder == << "Window", "Adapter", "Device", "CommandQueue", "SwapChain",
                  "RTVHeap", "BackBuffers", "Allocators", "CommandList",
                  "Fence", "FenceEvent" >>

\* wWinMain has not created anything yet; g_IsInitialized is false (main.cpp:51).
StartupNotBegun ==
    /\ g_IsInitialized = FALSE
    /\ startupI = 0
    /\ message = "none"

\* wWinMain has reached its message loop (main.cpp:937).
StartupDone ==
    /\ g_IsInitialized = TRUE
    /\ startupI = Len(StartupOrder) + 1
    /\ message = "none"

Init ==
    /\ pc = "idle"
    /\ argv = << >>
    /\ InitState
    /\ GameIdle
    /\ AdapterIdle
    /\ StartupDone

\* ------------------------------------------------------------ GPU / fence
\* SetEventOnCompletion semantics of the fence when it reaches value v.
FenceReached(v) ==
    /\ completedValue' = Max(completedValue, v)
    /\ IF \E e \in eventPending : v >= e
         THEN fenceEvent' = TRUE /\ eventPending' = { e \in eventPending : e > v }
         ELSE UNCHANGED << fenceEvent, eventPending >>

\* The GPU works on the oldest item of the command queue (FIFO): it executes
\* the next command of a batch, retiring the batch with its last command; a
\* signal item raises the fence's completed value.
GpuRetire ==
    /\ gpuQueue # << >>
    /\ LET item == Head(gpuQueue)
       IN  IF item.kind = "batch" /\ item.next <= Len(item.cmds)
             THEN /\ imageState' = Executed(item.cmds[item.next], imageState)
                  /\ gpuQueue' = IF item.next < Len(item.cmds)
                                   THEN << [item EXCEPT !.next = item.next + 1] >> \o Tail(gpuQueue)
                                   ELSE Tail(gpuQueue)
                  /\ UNCHANGED << completedValue, eventPending, fenceEvent >>
             ELSE /\ gpuQueue' = Tail(gpuQueue)
                  /\ UNCHANGED imageState
                  /\ IF item.kind = "signal"
                       THEN FenceReached(item.value)
                       ELSE UNCHANGED << completedValue, eventPending, fenceEvent >>
    /\ UNCHANGED << cpuVars, scVars >>
    /\ UNCHANGED << waitDuration, waitStatus, winVars, argVars, otherVars >>

\* ------------------------------------------------------- WaitForFenceValue
\* Where control goes when WaitForFenceValue returns to its caller.
AfterWait ==
    CASE call.op = "Resize" -> "Z_release"
      [] call.op = "Shutdown" -> "S_closeHandle"
      [] OTHER -> "idle"

\* main.cpp:600-603  entry of WaitForFenceValue(value): the fast-path test.
WaitEntry(value) ==
    /\ waitValue' = value
    /\ waitDuration' = MillisecondsMax
    /\ waitStatus' = NotCalled
    /\ ops' = Append(ops, "Wait")
    /\ pc' = IF NeedsWait(completedValue, value) THEN "W_setEvent" ELSE AfterWait

\* main.cpp:604  fence->SetEventOnCompletion(fenceValue, fenceEvent)
WaitSetEvent ==
    /\ pc = "W_setEvent"
    /\ IF completedValue >= EventValue(waitValue)
         THEN fenceEvent' = TRUE /\ UNCHANGED eventPending
         ELSE eventPending' = eventPending \cup { EventValue(waitValue) } /\ UNCHANGED fenceEvent
    /\ ops' = Append(ops, "SetEventOnCompletion")
    /\ pc' = "W_block"
    /\ UNCHANGED << call, renders, g_ClientWidth, g_ClientHeight, g_VSync,
                    g_TearingSupported, g_CurrentBackBufferIndex, g_FenceValue,
                    g_FrameFenceValues, g_BackBuffers, g_CommandList, rtvHeap,
                    commandAllocator, backBuffer, waitValue, loopI, fenceValueForSignal,
                    gpuQueue, completedValue, scVars >>
    /\ UNCHANGED << imageState, waitDuration, waitStatus, winVars, argVars, otherVars >>

\* main.cpp:605  ::WaitForSingleObject(fenceEvent, INFINITE) returns once the
\* auto-reset event is signalled, and consumes the signal.
WaitBlock ==
    /\ pc = "W_block"
    /\ fenceEvent
    /\ fenceEvent' = FALSE
    /\ waitStatus' = WaitObject0
    /\ ops' = Append(ops, "WaitForSingleObject")
    /\ pc' = AfterWait
    /\ backBuffer' = IF call.op = "Render" THEN NullHandle ELSE backBuffer
    /\ UNCHANGED << call, renders, g_ClientWidth, g_ClientHeight, g_VSync,
                    g_TearingSupported, g_CurrentBackBufferIndex, g_FenceValue,
                    g_FrameFenceValues, g_BackBuffers, g_CommandList, rtvHeap,
                    commandAllocator, waitValue, loopI, fenceValueForSignal,
                    gpuQueue, completedValue, eventPending, scVars >>
    /\ UNCHANGED << imageState, waitDuration, winVars, argVars, otherVars >>

\* main.cpp:605  ::WaitForSingleObject(fenceEvent, ms) with a finite ms gives
\* up when the interval elapses with the event still unsignalled.
WaitTimeout ==
    /\ pc = "W_block"
    /\ ~fenceEvent
    /\ TimeoutMs(waitDuration) # Infinite
    /\ waitStatus' = WaitTimeoutStatus
    /\ ops' = Append(ops, "WaitForSingleObject")
    /\ pc' = AfterWait
    /\ backBuffer' = IF call.op = "Render" THEN NullHandle ELSE backBuffer
    /\ UNCHANGED << call, waitValue, gpuVars, scVars >>
    /\ UNCHANGED << renders, g_ClientWidth, g_ClientHeight, g_VSync,
                    g_TearingSupported, g_CurrentBackBufferIndex, g_FenceValue,
                    g_FrameFenceValues, g_BackBuffers, g_CommandList, rtvHeap,
                    commandAllocator, loopI, fenceValueForSignal >>
    /\ UNCHANGED << imageState, waitDuration, winVars, argVars, otherVars >>

\* Durations a caller may pass: the default, zero, a short wait, 2^32 ms and
\* 0xFFFFFFFF ms.
Durations == { MillisecondsMax, << 0, 0, 0, 0 >>, << 0, 0, 0, 16 >>,
               << 0, 1, 0, 0 >>, << 0, 0, Limb, Limb >> }

\* main.cpp:600-603  a caller waits for fence value v for at most d.
TimedWait(v, d) ==
    /\ pc = "idle"
    /\ call' = [op |-> "WaitForFenceValue", w |-> 0, h |-> 0]
    /\ waitValue' = v
    /\ waitDuration' = d
    /\ waitStatus' = NotCalled
    /\ ops' = << "Wait" >>
    /\ pc' = IF NeedsWait(completedValue, v) THEN "W_setEvent" ELSE "idle"
    /\ UNCHANGED << backBuffer, gpuVars, scVars >>
    /\ UNCHANGED << renders, g_ClientWidth, g_ClientHeight, g_VSync,
                    g_TearingSupported, g_CurrentBackBufferIndex, g_FenceValue,
                    g_FrameFenceValues, g_BackBuffers, g_CommandList, rtvHeap,
                    commandAllocator, loopI, fenceValueForSignal >>
    /\ UNCHANGED << imageState, winVars, argVars, otherVars >>

\* ----------------------------------------------------------------- Signal
\* main.cpp:583-590  Signal: pre-increment the counter, enqueue the GPU-side
\* signal for the new value.
SignalQueue(v) == Append(gpuQueue, SignalItem(v))

\* ----------------------------------------------------------------- Render
\* main.cpp:828-830, 681-682  WM_PAINT: Render() takes its local copies.
RenderBegin ==
    /\ pc = "idle"
    /\ g_FenceValue < MaxFence
    /\ call' = [op |-> "Render", w |-> 0, h |-> 0]
    /\ ops' = << >>
    /\ renders' = renders + 1
    /\ commandAllocator' = g_CurrentBackBufferIndex
    /\ backBuffer' = g_BackBuffers[g_CurrentBackBufferIndex]
    /\ pc' = "R_allocReset"
    /\ UNCHANGED << g_ClientWidth, g_ClientHeight, g_VSync, g_TearingSupported,
                    g_CurrentBackBufferIndex, g_FenceValue, g_FrameFenceValues,
                    g_BackBuffers, g_CommandList, rtvHeap, waitValue, loopI, fenceValueForSignal,
                    gpuVars, scVars >>
    /\ UNCHANGED << imageState, waitDuration, waitStatus, winVars, argVars, otherVars >>

\* Frame of the Render steps that touch only pc, ops and the command list.
RenderLocalUnchanged ==
    UNCHANGED << call, renders, g_ClientWidth, g_ClientHeight, g_VSync,
                 g_TearingSupported, g_CurrentBackBufferIndex, g_FenceValue,
                 g_FrameFenceValues, g_BackBuffers, rtvHeap, commandAllocator,
                 backBuffer, waitValue, loopI, fenceValueForSignal, gpuVars, scVars,
                 imageState, waitDuration, waitStatus, winVars, argVars, otherVars >>

\* main.cpp:684  commandAllocator->Reset()
RenderAllocatorReset ==
    /\ pc = "R_allocReset"
    /\ ops' = Append(ops, "AllocatorReset")
    /\ pc' = "R_listReset"
    /\ UNCHANGED g_CommandList
    /\ RenderLocalUnchanged

\* main.cpp:685  g_CommandList->Reset(commandAllocator.Get(), nullptr)
RenderListReset ==
    /\ pc = "R_listReset"
    /\ g_CommandList' = [state |-> "recording", alloc |-> commandAllocator, cmds |-> << >>]
    /\ ops' = Append(ops, "ListReset")
    /\ pc' = "R_record"
    /\ RenderLocalUnchanged

\* main.cpp:689-714  barrier PRESENT->RENDER_TARGET, clear, barrier back.  A
\* list that is not recording takes no command.
RenderRecord ==
    /\ pc = "R_record"
    /\ g_CommandList' =
          IF g_CommandList.state = "recording"
            THEN [g_CommandList EXCEPT !.cmds =
                     RecordedCommands(backBuffer, rtvHeap[g_CurrentBackBufferIndex])]
            ELSE g_CommandList
    /\ ops' = Append(ops, "Record")
    /\ pc' = "R_close"
    /\ RenderLocalUnchanged

\* main.cpp:717  g_CommandList->Close() succeeds on a recording list.
RenderClose ==
    /\ pc = "R_close"
    /\ g_CommandList.state = "recording"
    /\ g_CommandList' = [g_CommandList EXCEPT !.state = "closed"]
    /\ ops' = Append(ops, "Close")
    /\ pc' = "R_execute"
    /\ RenderLocalUnchanged

\* main.cpp:719-724  g_CommandQueue->ExecuteCommandLists(1, commandLists)
RenderExecute ==
    /\ pc = "R_execute"
    /\ gpuQueue' = Append(gpuQueue, Batch(g_CommandList.alloc, g_CommandList.cmds))
    /\ ops' = Append(ops, "Execute")
    /\ pc' = "R_present"
    /\ UNCHANGED << call, renders, g_ClientWidth, g_ClientHeight, g_VSync,
                    g_TearingSupported, g_CurrentBackBufferIndex, g_FenceValue,
                    g_FrameFenceValues, g_BackBuffers, g_CommandList, rtvHeap,
                    commandAllocator, backBuffer, waitValue, loopI, fenceValueForSignal,
                    completedValue, eventPending, fenceEvent, scVars >>
    /\ UNCHANGED << imageState, waitDuration, waitStatus, winVars, argVars, otherVars >>

\* main.cpp:726-729  g_SwapChain->Present(syncInterval, presentFlags); the
\* swap chain then reports whichever back buffer it makes current.
RenderPresent ==
    /\ pc = "R_present"
    /\ lastPresent' = [valid |-> TRUE,
                       sync |-> SyncInterval(g_VSync),
                       flags |-> PresentFlags(g_TearingSupported, g_VSync)]
    /\ gpuQueue' = Append(gpuQueue, PresentItem(g_CurrentBackBufferIndex))
    /\ \E next \in Slots : scIndex' = next
    /\ ops' = Append(ops, "Present")
    /\ pc' = "R_signal"
    /\ UNCHANGED << call, renders, g_ClientWidth, g_ClientHeight, g_VSync,
                    g_TearingSupported, g_CurrentBackBufferIndex, g_FenceValue,
                    g_FrameFenceValues, g_BackBuffers, g_CommandList, rtvHeap,
                    commandAllocator, backBuffer, waitValue, loopI, fenceValueForSignal,
                    completedValue, eventPending, fenceEvent, scSize >>
    /\ UNCHANGED << imageState, waitDuration, waitStatus, winVars, argVars, otherVars >>

\* main.cpp:731  g_FrameFenceValues[g_CurrentBackBufferIndex] = Signal(...)
RenderSignal ==
    /\ pc = "R_signal"
    /\ g_FenceValue' = NextFenceValue(g_FenceValue)
    /\ gpuQueue' = SignalQueue(g_FenceValue')
    /\ g_FrameFenceValues' =
          [g_FrameFenceValues EXCEPT ![WatermarkSlot(g_CurrentBackBufferIndex, scIndex)] = g_FenceValue']
    /\ ops' = Append(ops, "Signal")
    /\ pc' = "R_getIndex"
    /\ UNCHANGED << call, renders, g_ClientWidth, g_ClientHeight, g_VSync,
                    g_TearingSupported, g_CurrentBackBufferIndex,
                    g_BackBuffers, g_CommandList, rtvHeap,
                    commandAllocator, backBuffer, waitValue, loopI, fenceValueForSignal,
                    completedValue, eventPending, fenceEvent, scVars >>
    /\ UNCHANGED << imageState, waitDuration, waitStatus, winVars, argVars, otherVars >>

\* main.cpp:735  g_CurrentBackBufferIndex = g_SwapChain->GetCurrentBackBufferIndex()
RenderGetIndex ==
    /\ pc = "R_getIndex"
    /\ g_CurrentBackBufferIndex' = QueryIndex(g_CurrentBackBufferIndex, scIndex)
    /\ ops' = Append(ops, "GetIndex")
    /\ pc' = "R_wait"
    /\ UNCHANGED << call, renders, g_ClientWidth, g_ClientHeight, g_VSync,
                    g_TearingSupported, g_FenceValue, g_FrameFenceValues,
                    g_BackBuffers, g_CommandList, rtvHeap,
                    commandAllocator, backBuffer, waitValue, loopI, fenceValueForSignal,
                    gpuVars, scVars >>
    /\ UNCHANGED << imageState, waitDuration, waitStatus, winVars, argVars, otherVars >>

\* main.cpp:738  the value Render waits for: the watermark of the slot that
\* has just become current.
WaitTarget_Oldest(watermarks, current) ==
    CHOOSE v \in { watermarks[i] : i \in Slots } : \A i \in Slots : v <= watermarks[i]
WaitTarget(watermarks, current) == watermarks[current]

\* main.cpp:738  WaitForFenceValue(g_Fence, g_FrameFenceValues[current], g_FenceEvent);
\* when the fast path is taken Render returns and its locals are released.
RenderWait ==
    /\ pc = "R_wait"
    /\ WaitEntry(WaitTarget(g_FrameFenceValues, g_CurrentBackBufferIndex))
    /\ backBuffer' = IF pc' = "idle" THEN NullHandle ELSE backBuffer
    /\ UNCHANGED << call, renders, g_ClientWidth, g_ClientHeight, g_VSync,
                    g_TearingSupported, g_CurrentBackBufferIndex, g_FenceValue,
                    g_FrameFenceValues, g_BackBuffers, g_CommandList, rtvHeap,
                    commandAllocator, loopI, fenceValueForSignal, gpuVars, scVars >>
    /\ UNCHANGED << imageState, winVars, argVars, otherVars >>

\* ------------------------------------------------------------ key handler
\* main.cpp:838-840  WM_KEYDOWN 'V': g_VSync = !g_VSync
KeyV ==
    /\ pc = "idle"
    /\ g_VSync' = ~g_VSync
    /\ call' = [op |-> "KeyV", w |-> 0, h |-> 0]
    /\ ops' = << >>
    /\ UNCHANGED << pc, renders, g_ClientWidth, g_ClientHeight,
                    g_TearingSupported, g_CurrentBackBufferIndex, g_FenceValue,
                    g_FrameFenceValues, g_BackBuffers, g_CommandList, rtvHeap,
                    commandAllocator, backBuffer, waitValue, loopI, fenceValueForSignal,
                    gpuVars, scVars >>
    /\ UNCHANGED << imageState, waitDuration, waitStatus, winVars, argVars, otherVars >>

RenderStep ==
    \/ RenderBegin
    \/ RenderAllocatorReset
    \/ RenderListReset
    \/ RenderRecord
    \/ RenderClose
    \/ RenderExecute
    \/ RenderPresent
    \/ RenderSignal
    \/ RenderGetIndex
    \/ RenderWait

\* ----------------------------------------------------------------- Resize
\* main.cpp:858-866, 746-749  WM_SIZE: Resize(width, height) compares the
\* request with the client size and stores the clamped size.
ResizeEntry(w, h) ==
    /\ call' = [op |-> "Resize", w |-> w, h |-> h]
    /\ ops' = << >>
    /\ IF SizeDiffers(g_ClientWidth, g_ClientHeight, w, h)
         THEN /\ g_FenceValue < MaxFence
              /\ g_ClientWidth' = ClampDim(w)
              /\ g_ClientHeight' = ClampDim(h)
              /\ pc' = "F_signal"
         ELSE UNCHANGED << pc, g_ClientWidth, g_ClientHeight >>
    /\ UNCHANGED << renders, g_VSync, g_TearingSupported,
                    g_CurrentBackBufferIndex, g_FenceValue, g_FrameFenceValues,
                    g_BackBuffers, g_CommandList, rtvHeap, commandAllocator,
                    backBuffer, waitValue, loopI, fenceValueForSignal,
                    gpuVars, scVars >>
    /\ UNCHANGED << imageState, waitDuration, waitStatus, argVars, otherVars >>

\* main.cpp:938-942  the loop dispatches a message only when the handler of
\* the previous one has returned; Render makes no call that dispatches one.
Dispatching_Reentrant(p) == p \in { "idle", "R_present" }
Dispatching(p) == p = "idle"

ResizeBegin(w, h) ==
    /\ Dispatching(pc)
    /\ ResizeEntry(w, h)
    /\ UNCHANGED winVars

\* main.cpp:617  uint64_t fenceValueForSignal = Signal(commandQueue, fence, fenceValue)
FlushSignal ==
    /\ pc = "F_signal"
    /\ g_FenceValue' = NextFenceValue(g_FenceValue)
    /\ gpuQueue' = SignalQueue(g_FenceValue')
    /\ fenceValueForSignal' = g_FenceValue'
    /\ ops' = Append(ops, "Signal")
    /\ pc' = "F_wait"
    /\ UNCHANGED << call, renders, g_ClientWidth, g_ClientHeight, g_VSync,
                    g_TearingSupported, g_CurrentBackBufferIndex,
                    g_FrameFenceValues, g_BackBuffers, g_CommandList, rtvHeap,
                    commandAllocator, backBuffer, waitValue, loopI,
                    completedValue, eventPending, fenceEvent, scVars >>
    /\ UNCHANGED << imageState, waitDuration, waitStatus, winVars, argVars, otherVars >>

\* main.cpp:618  WaitForFenceValue(fence, fenceValueForSignal, fenceEvent)
FlushTarget_Next(signalled) == signalled + 1
FlushTarget(signalled) == signalled

FlushWait ==
    /\ pc = "F_wait"
    /\ WaitEntry(FlushTarget(fenceValueForSignal))
    /\ UNCHANGED << call, renders, g_ClientWidth, g_ClientHeight, g_VSync,
                    g_TearingSupported, g_CurrentBackBufferIndex, g_FenceValue,
                    g_FrameFenceValues, g_BackBuffers, g_CommandList, rtvHeap,
                    commandAllocator, backBuffer, loopI, fenceValueForSignal,
                    gpuVars, scVars >>
    /\ UNCHANGED << imageState, winVars, argVars, otherVars >>

\* main.cpp:755-760  one iteration of the release loop.
ResetWatermark_Flushed(watermarks, current, flushed) == flushed
ResetWatermark(watermarks, current, flushed) == watermarks[current]

ResizeRelease ==
    /\ pc = "Z_release"
    /\ loopI < g_NumFrames
    /\ g_BackBuffers' = [g_BackBuffers EXCEPT ![loopI] = ReleasedHandle(@)]
    /\ g_FrameFenceValues' =
          [g_FrameFenceValues EXCEPT ![loopI] =
              ResetWatermark(g_FrameFenceValues, g_CurrentBackBufferIndex, fenceValueForSignal)]
    /\ ops' = Append(ops, "Release")
    /\ IF loopI + 1 < g_NumFrames
         THEN loopI' = loopI + 1 /\ pc' = "Z_release"
         ELSE loopI' = 0 /\ pc' = "Z_getDesc"
    /\ UNCHANGED << call, renders, g_ClientWidth, g_ClientHeight, g_VSync,
                    g_TearingSupported, g_CurrentBackBufferIndex, g_FenceValue,
                    g_CommandList, rtvHeap, commandAllocator, backBuffer,
                    waitValue, fenceValueForSignal, gpuVars, scVars >>
    /\ UNCHANGED << imageState, waitDuration, waitStatus, winVars, argVars, otherVars >>

\* main.cpp:762-763  g_SwapChain->GetDesc(&swapChainDesc)
ResizeGetDesc ==
    /\ pc = "Z_getDesc"
    /\ ops' = Append(ops, "GetDesc")
    /\ pc' = "Z_resizeBuffers"
    /\ swapChainDesc' = scDesc
    /\ UNCHANGED << call, renders, g_ClientWidth, g_ClientHeight, g_VSync,
                    g_TearingSupported, g_CurrentBackBufferIndex, g_FenceValue,
                    g_FrameFenceValues, g_BackBuffers, g_CommandList, rtvHeap,
                    commandAllocator, backBuffer, waitValue, loopI,
                    fenceValueForSignal, gpuVars, scVars >>
    /\ UNCHANGED << imageState, waitDuration, waitStatus, winVars, argVars,
                    gameVars, adapterVars, startVars, scDesc >>

\* main.cpp:764-765  the flags argument of ResizeBuffers: swapChainDesc.Flags
ResizeFlags_None(desc) == CreationNoFlags
ResizeFlags(desc) == desc.flags

\* main.cpp:764-765  ThrowIfFailed(g_SwapChain->ResizeBuffers(...)): the swap
\* chain refuses while a reference to one of its images is outstanding;
\* otherwise it replaces its image set, which leaves the old views dangling.
ResizeBuffers ==
    /\ pc = "Z_resizeBuffers"
    /\ ops' = Append(ops, "ResizeBuffers")
    /\ IF HeldReferences > 0
         THEN /\ pc' = "fatal"
              /\ UNCHANGED << rtvHeap, scVars, imageState, scDesc >>
         ELSE /\ scSize' = << g_ClientWidth, g_ClientHeight >>
              /\ \E next \in Slots : scIndex' = next
              /\ rtvHeap' = [i \in Slots |-> NullHandle]
              /\ imageState' = [i \in Slots |-> "PRESENT"]
              /\ scDesc' = [count |-> g_NumFrames,
                            format |-> swapChainDesc.format,
                            flags |-> ResizeFlags(swapChainDesc)]
              /\ pc' = "Z_getIndex"
              /\ UNCHANGED lastPresent
    /\ UNCHANGED << call, renders, g_ClientWidth, g_ClientHeight, g_VSync,
                    g_TearingSupported, g_CurrentBackBufferIndex, g_FenceValue,
                    g_FrameFenceValues, g_BackBuffers, g_CommandList,
                    commandAllocator, backBuffer, waitValue, loopI,
                    fenceValueForSignal, gpuVars >>
    /\ UNCHANGED << waitDuration, waitStatus, winVars, argVars,
                    gameVars, adapterVars, startVars, swapChainDesc >>

\* main.cpp:767  g_CurrentBackBufferIndex = g_SwapChain->GetCurrentBackBufferIndex()
ResizeGetIndex ==
    /\ pc = "Z_getIndex"
    /\ g_CurrentBackBufferIndex' = QueryIndex(g_CurrentBackBufferIndex, scIndex)
    /\ ops' = Append(ops, "GetIndex")
    /\ pc' = "Z_updateRTV"
    /\ UNCHANGED << call, renders, g_ClientWidth, g_ClientHeight, g_VSync,
                    g_TearingSupported, g_FenceValue, g_FrameFenceValues,
                    g_BackBuffers, g_CommandList, rtvHeap, commandAllocator,
                    backBuffer, waitValue, loopI, fenceValueForSignal,
                    gpuVars, scVars >>
    /\ UNCHANGED << imageState, waitDuration, waitStatus, winVars, argVars, otherVars >>

\* main.cpp:481, 489  the descriptor iteration i writes: rtvHandle starts at
\* the heap's first descriptor and is offset by one descriptor per iteration.
ViewSlot_NoOffset(i) == 0
ViewSlot(i) == i

\* main.cpp:769, 483-495  one iteration of UpdateRenderTargetViews: GetBuffer(i),
\* CreateRenderTargetView, g_BackBuffers[i] = backBuffer.  A handle obtained
\* here is one of the swap chain's current image set: ResizeBuffers succeeds
\* only once every handle of the set it replaces has been released, and it
\* empties the views built for that set.
UpdateRenderTargetViews ==
    /\ pc = "Z_updateRTV"
    /\ loopI < g_NumFrames
    /\ g_BackBuffers' = [g_BackBuffers EXCEPT ![loopI] = ImageHandle(loopI)]
    /\ rtvHeap' = [rtvHeap EXCEPT ![ViewSlot(loopI)] = ImageHandle(loopI)]
    /\ ops' = Append(ops, "GetBuffer")
    /\ IF loopI + 1 < g_NumFrames
         THEN loopI' = loopI + 1 /\ pc' = "Z_updateRTV"
         ELSE loopI' = 0 /\ pc' = "idle"
    /\ UNCHANGED << call, renders, g_ClientWidth, g_ClientHeight, g_VSync,
                    g_TearingSupported, g_CurrentBackBufferIndex, g_FenceValue,
                    g_FrameFenceValues, g_CommandList, commandAllocator,
                    backBuffer, waitValue, fenceValueForSignal, gpuVars, scVars >>
    /\ UNCHANGED << imageState, waitDuration, waitStatus, winVars, argVars, otherVars >>

ResizeStep ==
    \/ \E sz \in ReqSizes : ResizeBegin(sz[1], sz[2])
    \/ FlushSignal
    \/ FlushWait
    \/ ResizeRelease
    \/ ResizeGetDesc
    \/ ResizeBuffers
    \/ ResizeGetIndex
    \/ UpdateRenderTargetViews

\* --------------------------------------------------------------- shutdown
\* main.cpp:841-843, 938-946  Escape posts the quit message, the message loop
\* ends and wWinMain calls Flush.
AfterLoop_NoFlush == "S_closeHandle"
AfterLoop == "F_signal"

Quit ==
    /\ pc = "idle"
    /\ g_FenceValue < MaxFence
    /\ call' = [op |-> "Shutdown", w |-> 0, h |-> 0]
    /\ ops' = << >>
    /\ pc' = AfterLoop
    /\ UNCHANGED << renders, g_ClientWidth, g_ClientHeight, g_VSync,
                    g_TearingSupported, g_CurrentBackBufferIndex, g_FenceValue,
                    g_FrameFenceValues, g_BackBuffers, g_CommandList, rtvHeap,
                    commandAllocator, backBuffer, waitValue, loopI,
                    fenceValueForSignal, gpuVars, scVars >>
    /\ UNCHANGED << imageState, waitDuration, waitStatus, winVars, argVars, otherVars >>

\* main.cpp:948-950  ::CloseHandle(g_FenceEvent); return 0
CloseHandle ==
    /\ pc = "S_closeHandle"
    /\ ops' = Append(ops, "CloseHandle")
    /\ pc' = "done"
    /\ UNCHANGED << call, renders, g_ClientWidth, g_ClientHeight, g_VSync,
                    g_TearingSupported, g_CurrentBackBufferIndex, g_FenceValue,
                    g_FrameFenceValues, g_BackBuffers, g_CommandList, rtvHeap,
                    commandAllocator, backBuffer, waitValue, loopI,
                    fenceValueForSignal, gpuVars, scVars >>
    /\ UNCHANGED << imageState, waitDuration, waitStatus, winVars, argVars, otherVars >>

\* --------------------------------------------------------- specifications
\* ---------------------------------------------------------------- window
RectWidth(r) == r.right - r.left
RectHeight(r) == r.bottom - r.top

\* main.cpp:860-864  ::GetClientRect: the window without its frame.
ClientWidth_Framed == RectWidth(winRect) - FrameWidth
ClientWidth == RectWidth(winRect) - (IF winStyle = OverlappedWindow THEN FrameWidth ELSE 0)
ClientHeight == RectHeight(winRect) - (IF winStyle = OverlappedWindow THEN FrameHeight ELSE 0)

\* main.cpp:776  if (g_Fullscreen != fullscreen)
FullscreenDiffers_Always(current, requested) == TRUE
FullscreenDiffers(current, requested) == current # requested

\* main.cpp:810-815  the rectangle SetWindowPos is given when leaving fullscreen.
RestoreRect_Created(saved) == CreatedRect
RestoreRect(saved) == saved

\* main.cpp:775-820  SetFullscreen(fullscreen).  SetWindowPos and ShowWindow
\* send WM_SIZE to the window procedure before they return.
SetFullscreen(fullscreen) ==
    IF FullscreenDiffers(g_Fullscreen, fullscreen)
      THEN /\ g_Fullscreen' = fullscreen
           /\ sizePending' = TRUE
           /\ IF fullscreen
                THEN /\ g_WindowRect' = winRect
                     /\ winStyle' = Borderless
                     /\ winRect' = MonitorRect
                     /\ ops' = << "GetWindowRect", "SetWindowLong", "SetWindowPos", "ShowWindow" >>
                ELSE /\ winStyle' = OverlappedWindow
                     /\ winRect' = RestoreRect(g_WindowRect)
                     /\ ops' = << "SetWindowLong", "SetWindowPos", "ShowWindow" >>
                     /\ UNCHANGED g_WindowRect
      ELSE /\ ops' = << >>
           /\ UNCHANGED << g_Fullscreen, g_WindowRect, winRect, winStyle, sizePending >>

\* A direct call SetFullscreen(f), whatever the current state.
SetFullscreenCall(f) ==
    /\ pc = "idle"
    /\ call' = [op |-> "SetFullscreen", w |-> 0, h |-> 0, fullscreen |-> f]
    /\ SetFullscreen(f)
    /\ UNCHANGED quitPosted
    /\ UNCHANGED << pc, renders, g_ClientWidth, g_ClientHeight, g_VSync,
                    g_TearingSupported, g_CurrentBackBufferIndex, g_FenceValue,
                    g_FrameFenceValues, g_BackBuffers, g_CommandList, rtvHeap,
                    commandAllocator, backBuffer, waitValue, loopI, fenceValueForSignal,
                    gpuVars, scVars >>
    /\ UNCHANGED << imageState, waitDuration, waitStatus, argVars, otherVars >>

\* main.cpp:832-852  WM_KEYDOWN / WM_SYSKEYDOWN for the keys other than 'V'.
Keys == { "VK_ESCAPE", "VK_RETURN", "VK_F11", "A" }

\* main.cpp:844-849  case VK_RETURN: if (alt) { case VK_F11: ... } break;
TogglesFullscreen_AltOnly(key, alt) == alt /\ key \in { "VK_RETURN", "VK_F11" }
TogglesFullscreen(key, alt) == key = "VK_F11" \/ (key = "VK_RETURN" /\ alt)

KeyDown(key, alt) ==
    /\ pc = "idle"
    /\ call' = [op |-> "KeyDown", w |-> 0, h |-> 0, key |-> key, alt |-> alt]
    /\ quitPosted' = (quitPosted \/ key = "VK_ESCAPE")
    /\ IF TogglesFullscreen(key, alt)
         THEN SetFullscreen(~g_Fullscreen)
         ELSE /\ ops' = << >>
              /\ UNCHANGED << g_Fullscreen, g_WindowRect, winRect, winStyle, sizePending >>
    /\ UNCHANGED << pc, renders, g_ClientWidth, g_ClientHeight, g_VSync,
                    g_TearingSupported, g_CurrentBackBufferIndex, g_FenceValue,
                    g_FrameFenceValues, g_BackBuffers, g_CommandList, rtvHeap,
                    commandAllocator, backBuffer, waitValue, loopI, fenceValueForSignal,
                    gpuVars, scVars >>
    /\ UNCHANGED << imageState, waitDuration, waitStatus, argVars, otherVars >>

\* main.cpp:869-871  WM_DESTROY: ::PostQuitMessage(0)
WmDestroy ==
    /\ pc = "idle"
    /\ call' = [op |-> "WM_DESTROY", w |-> 0, h |-> 0]
    /\ ops' = << >>
    /\ quitPosted' = TRUE
    /\ UNCHANGED << g_Fullscreen, g_WindowRect, winRect, winStyle, sizePending >>
    /\ UNCHANGED << pc, renders, g_ClientWidth, g_ClientHeight, g_VSync,
                    g_TearingSupported, g_CurrentBackBufferIndex, g_FenceValue,
                    g_FrameFenceValues, g_BackBuffers, g_CommandList, rtvHeap,
                    commandAllocator, backBuffer, waitValue, loopI, fenceValueForSignal,
                    gpuVars, scVars >>
    /\ UNCHANGED << imageState, waitDuration, waitStatus, argVars, otherVars >>

\* The user moves and sizes the windowed window (handled by DefWindowProcW);
\* the new client area is announced with WM_SIZE.
DragWindow ==
    /\ pc = "idle"
    /\ ~g_Fullscreen
    /\ \E r \in { CreatedRect, DraggedRect } \ { winRect } : winRect' = r
    /\ sizePending' = TRUE
    /\ UNCHANGED << call, ops, g_Fullscreen, g_WindowRect, winStyle, quitPosted >>
    /\ UNCHANGED << pc, renders, g_ClientWidth, g_ClientHeight, g_VSync,
                    g_TearingSupported, g_CurrentBackBufferIndex, g_FenceValue,
                    g_FrameFenceValues, g_BackBuffers, g_CommandList, rtvHeap,
                    commandAllocator, backBuffer, waitValue, loopI, fenceValueForSignal,
                    gpuVars, scVars >>
    /\ UNCHANGED << imageState, waitDuration, waitStatus, argVars, otherVars >>

\* main.cpp:858-868  WM_SIZE: Resize(client width, client height)
WmSize ==
    /\ pc = "idle"
    /\ sizePending
    /\ sizePending' = FALSE
    /\ ResizeEntry(ClientWidth, ClientHeight)
    /\ UNCHANGED << g_Fullscreen, g_WindowRect, winRect, winStyle, quitPosted >>

\* ------------------------------------------------------------ command line
\* Arguments as wide strings, one character per element.
ProgramName == << "a", "p", "p" >>
Tokens == { << "-", "w" >>, << "-", "-", "w", "i", "d", "t", "h" >>,
            << "-", "h" >>, << "-", "-", "h", "e", "i", "g", "h", "t" >>,
            << "-", "w", "a", "r", "p" >>, << "-", "-", "w", "a", "r", "p" >>,
            << "8", "0", "0" >>, << "6", "x" >>, << "a", "b", "c" >> }

RECURSIVE ArgTails(_)
ArgTails(n) ==
    IF n = 0 THEN { << >> }
    ELSE ArgTails(n - 1) \cup { Append(a, t) : a \in ArgTails(n - 1), t \in Tokens }

ArgLists == { << ProgramName >> \o a : a \in ArgTails(MaxArgs) }

\* main.cpp:154-162  ::wcscmp(argv[i], ...) == 0
IsWidthFlag(t) == t \in { << "-", "w" >>, << "-", "-", "w", "i", "d", "t", "h" >> }
IsHeightFlag(t) == t \in { << "-", "h" >>, << "-", "-", "h", "e", "i", "g", "h", "t" >> }
IsWarpFlag(t) == t \in { << "-", "w", "a", "r", "p" >>, << "-", "-", "w", "a", "r", "p" >> }

\* main.cpp:155, 158  ::wcstol(s, nullptr, 10): an optional sign, then the
\* longest run of decimal digits; 0 when there is none.
DigitChars == << "0", "1", "2", "3", "4", "5", "6", "7", "8", "9" >>
IsDigit(c) == \E d \in 1 .. 10 : DigitChars[d] = c
DigitValue(c) == (CHOOSE d \in 1 .. 10 : DigitChars[d] = c) - 1

RECURSIVE DigitsValue(_, _)
DigitsValue(s, acc) ==
    IF s = << >> \/ ~IsDigit(Head(s)) THEN acc
    ELSE DigitsValue(Tail(s), acc * 10 + DigitValue(Head(s)))

Wcstol(s) ==
    IF s # << >> /\ Head(s) = "-" THEN 0 - DigitsValue(Tail(s), 0)
    ELSE IF s # << >> /\ Head(s) = "+" THEN DigitsValue(Tail(s), 0)
    ELSE DigitsValue(s, 0)

\* What reading argv[k] with k >= argc may do: fault, or yield whatever lies
\* behind the array.
Fault == << "fault" >>

\* main.cpp:153-163  one iteration of the loop: three ifs in a row, each
\* reading argv[i] with the i the previous one left.
ParseIteration ==
    /\ pc = "P_loop"
    /\ argI < Len(argv)
    /\ \E beyond \in Tokens \cup { Fault } :
         LET At(k) == IF k < Len(argv) THEN argv[k + 1] ELSE beyond
             isW == IsWidthFlag(At(argI))
             i1 == IF isW THEN argI + 1 ELSE argI
             isH == IsHeightFlag(At(i1))
             i2 == IF isH THEN i1 + 1 ELSE i1
         IN  IF i2 >= Len(argv) /\ beyond = Fault
               THEN /\ pc' = "fatal"
                    /\ UNCHANGED << g_ClientWidth, g_ClientHeight, argI, g_UseWarp >>
               ELSE /\ g_ClientWidth' = IF isW THEN Wcstol(At(i1)) ELSE g_ClientWidth
                    /\ g_ClientHeight' = IF isH THEN Wcstol(At(i2)) ELSE g_ClientHeight
                    /\ g_UseWarp' = (g_UseWarp \/ IsWarpFlag(At(i2)))
                    /\ argI' = i2 + 1
                    /\ pc' = "P_loop"
    /\ UNCHANGED << call, ops, renders, g_VSync, g_TearingSupported,
                    g_CurrentBackBufferIndex, g_FenceValue, g_FrameFenceValues,
                    g_BackBuffers, g_CommandList, rtvHeap, commandAllocator,
                    backBuffer, waitValue, loopI, fenceValueForSignal,
                    gpuVars, scVars, imageState, waitDuration, waitStatus,
                    winVars, argv, otherVars >>

\* main.cpp:153, 166  the loop ends; ParseCommandLineArguments returns.
ParseReturn ==
    /\ pc = "P_loop"
    /\ argI >= Len(argv)
    /\ pc' = "parsed"
    /\ UNCHANGED << call, ops, renders, g_ClientWidth, g_ClientHeight, g_VSync,
                    g_TearingSupported, g_CurrentBackBufferIndex, g_FenceValue,
                    g_FrameFenceValues, g_BackBuffers, g_CommandList, rtvHeap,
                    commandAllocator, backBuffer, waitValue, loopI,
                    fenceValueForSignal, gpuVars, scVars, imageState,
                    waitDuration, waitStatus, winVars, argVars, otherVars >>

\* ---------------------------------------------------------------- GameBase
\* gamebase.cpp:21  the guard of Initialize.
SupportVerified_Ignored(support) == TRUE
SupportVerified(support) == support

\* gamebase.cpp:26  the window Application::CreateRenderWindow(name, w, h, vSync)
\* hands back; RegisterCallbacks and Show (gamebase.cpp:27-28) act on it.
CreateRenderWindow(width, height, vSync) ==
    [width |-> width, height |-> height, vSync |-> vSync,
     callbacks |-> FALSE, shown |-> FALSE, destroyed |-> FALSE]
RegisterCallbacks(window) == [window EXCEPT !.callbacks = TRUE]
Show(window) == [window EXCEPT !.shown = TRUE]

\* The object has not been destructed.
GameAlive == gameResult \notin { "destructed", "assertion failed" }

\* gamebase.cpp:19-31  bool GameBase::Initialize()
GameInitialize ==
    /\ GameAlive
    /\ Len(windows) < MaxWindows
    /\ IF ~SupportVerified(cpuSupport)
         THEN /\ gameOps' = << "MessageBox" >>
              /\ gameResult' = "false"
              /\ UNCHANGED << m_pWindow, windows >>
         ELSE /\ windows' = Append(windows,
                      Show(RegisterCallbacks(CreateRenderWindow(m_Width, m_Height, m_vSync))))
              /\ m_pWindow' = Len(windows) + 1
              /\ gameOps' = << "CreateRenderWindow", "RegisterCallbacks", "Show" >>
              /\ gameResult' = "true"
    /\ UNCHANGED << m_Width, m_Height, m_vSync, cpuSupport >>
    /\ UNCHANGED << cpuVars, gpuVars, scVars, imageState, waitDuration, waitStatus,
                    winVars, argVars, adapterVars, startVars, descVars >>

\* gamebase.cpp:33-36  void GameBase::Destroy()
\* gamebase.cpp:35  m_pWindow.reset()
ResetPointer_Kept(window) == window
ResetPointer(window) == NoWindow

GameDestroy ==
    /\ GameAlive
    /\ windows' = IF m_pWindow = NoWindow THEN windows
                  ELSE [windows EXCEPT ![m_pWindow].destroyed = TRUE]
    /\ m_pWindow' = ResetPointer(m_pWindow)
    /\ gameOps' = << "DestroyWindow" >>
    /\ gameResult' = "void"
    /\ UNCHANGED << m_Width, m_Height, m_vSync, cpuSupport >>
    /\ UNCHANGED << cpuVars, gpuVars, scVars, imageState, waitDuration, waitStatus,
                    winVars, argVars, adapterVars, startVars, descVars >>

\* gamebase.cpp:70-73  void GameBase::OnResize(ResizeEventArgs& e)
GameOnResize(width, height) ==
    /\ GameAlive
    /\ m_Width' = width
    /\ m_Height' = height
    /\ gameOps' = << >>
    /\ gameResult' = "void"
    /\ UNCHANGED << m_pWindow, m_vSync, cpuSupport, windows >>
    /\ UNCHANGED << cpuVars, gpuVars, scVars, imageState, waitDuration, waitStatus,
                    winVars, argVars, adapterVars, startVars, descVars >>

\* gamebase.cpp:16  the condition of the destructor's assert: !m_pWindow
AssertHolds(window) == window = NoWindow

\* gamebase.cpp:15-17  GameBase::~GameBase(), in a build that keeps assert.
GameDestructor ==
    /\ GameAlive
    /\ gameOps' = << "~GameBase" >>
    /\ gameResult' = IF AssertHolds(m_pWindow) THEN "destructed" ELSE "assertion failed"
    /\ UNCHANGED << m_pWindow, m_Width, m_Height, m_vSync, cpuSupport, windows >>
    /\ UNCHANGED << cpuVars, gpuVars, scVars, imageState, waitDuration, waitStatus,
                    winVars, argVars, adapterVars, startVars, descVars >>

GameSizes == { << DefaultWidth, DefaultHeight >>, << 800, 600 >> }

\* A GameBase object constructed with any of the sizes, on a machine that does
\* or does not pass the CPU check.
InitGame ==
    /\ pc = "idle"
    /\ argv = << >>
    /\ InitState
    /\ AdapterIdle
    /\ GameConstructed
    /\ \E size \in GameSizes : m_Width = size[1] /\ m_Height = size[2]
    /\ m_vSync \in BOOLEAN
    /\ cpuSupport \in BOOLEAN
    /\ StartupNotBegun

NextGame ==
    \/ GameInitialize
    \/ GameDestroy
    \/ \E size \in GameSizes : GameOnResize(size[1], size[2])
    \/ GameDestructor

SpecGame == InitGame /\ [][NextGame]_vars

\* Where control is after ThrowIfFailed has thrown: nothing catches the
\* exception, the process ends.
Thrown == "fatal"

\* ----------------------------------------------------------------- startup
\* main.cpp:826  if (g_IsInitialized) { switch (message) ... }
Handles_Always(initialized) == TRUE
Handles(initialized) == initialized

\* The objects wWinMain has created so far.
Created == { StartupOrder[k] : k \in { j \in 1..Len(StartupOrder) : j <= startupI } }

\* main.cpp:897-931  the next creation statement of wWinMain.
StartupCreate ==
    /\ pc = "idle"
    /\ startupI < Len(StartupOrder)
    /\ startupI' = startupI + 1
    /\ UNCHANGED << g_IsInitialized, message >>
    /\ UNCHANGED << cpuVars, gpuVars, scVars, imageState, waitDuration, waitStatus,
                    winVars, argVars, gameVars, adapterVars, descVars >>

\* main.cpp:933  g_IsInitialized = true
StartupInitialized ==
    /\ pc = "idle"
    /\ startupI = Len(StartupOrder)
    /\ ~g_IsInitialized
    /\ g_IsInitialized' = TRUE
    /\ UNCHANGED << startupI, message >>
    /\ UNCHANGED << cpuVars, gpuVars, scVars, imageState, waitDuration, waitStatus,
                    winVars, argVars, gameVars, adapterVars, descVars >>

\* main.cpp:935-937  ::ShowWindow returns and the message loop begins.
StartupLoop ==
    /\ pc = "idle"
    /\ startupI = Len(StartupOrder)
    /\ g_IsInitialized
    /\ startupI' = startupI + 1
    /\ UNCHANGED << g_IsInitialized, message >>
    /\ UNCHANGED << cpuVars, gpuVars, scVars, imageState, waitDuration, waitStatus,
                    winVars, argVars, gameVars, adapterVars, descVars >>

\* main.cpp:870-874  ::DefWindowProcW(hwnd, message, wParam, lParam)
DefWindowProc(msg) ==
    /\ message' = msg
    /\ UNCHANGED << g_IsInitialized, startupI >>
    /\ UNCHANGED << cpuVars, gpuVars, scVars, imageState, waitDuration, waitStatus,
                    winVars, argVars, gameVars, adapterVars, descVars >>

Messages == { "WM_CREATE", "WM_PAINT", "WM_KEYDOWN", "WM_SIZE", "WM_DESTROY" }

\* main.cpp:825-880  WndProc for a message that reaches the window while no
\* handler is running: sent from inside a window API call of wWinMain, or
\* dispatched by the message loop.
WndProc(msg) ==
    /\ pc = "idle" /\ ~sizePending /\ ~quitPosted
    /\ g_FenceValue < MaxStartupFence
    /\ \/ ~Handles(g_IsInitialized) /\ DefWindowProc(msg)
       \/ Handles(g_IsInitialized) /\ msg = "WM_CREATE" /\ DefWindowProc(msg)
       \/ Handles(g_IsInitialized) /\ msg = "WM_PAINT" /\ RenderBegin
       \/ Handles(g_IsInitialized) /\ msg = "WM_KEYDOWN" /\ KeyV
       \/ Handles(g_IsInitialized) /\ msg = "WM_KEYDOWN"
             /\ \E key \in Keys, alt \in BOOLEAN : KeyDown(key, alt)
       \/ Handles(g_IsInitialized) /\ msg = "WM_SIZE"
             /\ \E sz \in ReqSizes : ResizeBegin(sz[1], sz[2])
       \/ Handles(g_IsInitialized) /\ msg = "WM_DESTROY" /\ WmDestroy

\* wWinMain from its first creation statement on.
InitStartup ==
    /\ pc = "idle"
    /\ argv = << >>
    /\ InitState
    /\ GameIdle
    /\ AdapterIdle
    /\ StartupNotBegun

NextStartup ==
    \/ StartupCreate
    \/ StartupInitialized
    \/ StartupLoop
    \/ \E msg \in Messages : WndProc(msg)
    \/ Handles(g_IsInitialized) /\ WmSize
    \/ startupI > Len(StartupOrder) /\ ~sizePending /\ quitPosted /\ Quit
    \/ RenderAllocatorReset \/ RenderListReset \/ RenderRecord \/ RenderClose
    \/ RenderExecute \/ RenderPresent \/ RenderSignal \/ RenderGetIndex \/ RenderWait
    \/ FlushSignal \/ FlushWait
    \/ ResizeRelease \/ ResizeGetDesc \/ ResizeBuffers \/ ResizeGetIndex
    \/ UpdateRenderTargetViews
    \/ CloseHandle
    \/ WaitSetEvent \/ WaitBlock
    \/ GpuRetire

SpecStartup == InitStartup /\ [][NextStartup]_vars

\* -------------------------------------------------------------- GetAdapter
\* What GetDesc1 and the D3D12CreateDevice probe report for one adapter.
MemorySizes == { 0, 1, 2 }
AdapterDescs == [software : BOOLEAN, canCreate : BOOLEAN, memory : MemorySizes]
AdapterLists == UNION { [1..n -> AdapterDescs] : n \in 0..MaxAdapters }

WarpAdapter == [kind |-> "warp", index |-> 0]
EnumAdapter(i) == [kind |-> "enum", index |-> i]

\* main.cpp:265-267  the condition under which iteration i takes its adapter.
Accepts_OrEqual(desc, max) == ~desc.software /\ desc.canCreate /\ desc.memory >= max
Accepts(desc, max) == ~desc.software /\ desc.canCreate /\ desc.memory > max

\* main.cpp:241-257  entry: the factory, then the warp adapter or the loop.
GetAdapterBegin(useWarp) ==
    /\ pc = "A_begin"
    /\ IF useWarp
         THEN dxgiAdapter4' = WarpAdapter /\ pc' = "A_return"
         ELSE dxgiAdapter4' = NoAdapter /\ pc' = "A_enum"
    /\ maxDedicatedVideoMemory' = 0
    /\ adapterI' = 1
    /\ UNCHANGED adapters
    /\ UNCHANGED << call, ops, renders, g_ClientWidth, g_ClientHeight, g_VSync,
                    g_TearingSupported, g_CurrentBackBufferIndex, g_FenceValue,
                    g_FrameFenceValues, g_BackBuffers, g_CommandList, rtvHeap,
                    commandAllocator, backBuffer, waitValue, loopI, fenceValueForSignal,
                    gpuVars, scVars >>
    /\ UNCHANGED << imageState, waitDuration, waitStatus, winVars, argVars, gameVars, startVars, descVars >>

\* main.cpp:258-271  one iteration of the enumeration loop; As(&dxgiAdapter4)
\* succeeds.
GetAdapterIteration ==
    /\ pc = "A_enum"
    /\ adapterI <= Len(adapters)
    /\ IF Accepts(adapters[adapterI], maxDedicatedVideoMemory)
         THEN /\ maxDedicatedVideoMemory' = adapters[adapterI].memory
              /\ dxgiAdapter4' = EnumAdapter(adapterI)
         ELSE UNCHANGED << maxDedicatedVideoMemory, dxgiAdapter4 >>
    /\ adapterI' = adapterI + 1
    /\ UNCHANGED << adapters, cpuVars, gpuVars, scVars >>
    /\ UNCHANGED << imageState, waitDuration, waitStatus, winVars, argVars, gameVars, startVars, descVars >>

\* main.cpp:268-269  the adapter is taken and As(&dxgiAdapter4) fails.
GetAdapterAsFail ==
    /\ pc = "A_enum"
    /\ adapterI <= Len(adapters)
    /\ Accepts(adapters[adapterI], maxDedicatedVideoMemory)
    /\ maxDedicatedVideoMemory' = adapters[adapterI].memory
    /\ pc' = Thrown
    /\ UNCHANGED << adapters, adapterI, dxgiAdapter4 >>
    /\ UNCHANGED << call, ops, renders, g_ClientWidth, g_ClientHeight, g_VSync,
                    g_TearingSupported, g_CurrentBackBufferIndex, g_FenceValue,
                    g_FrameFenceValues, g_BackBuffers, g_CommandList, rtvHeap,
                    commandAllocator, backBuffer, waitValue, loopI, fenceValueForSignal,
                    gpuVars, scVars >>
    /\ UNCHANGED << imageState, waitDuration, waitStatus, winVars, argVars, gameVars, startVars, descVars >>

\* main.cpp:258, 274  EnumAdapters1 reports DXGI_ERROR_NOT_FOUND; return dxgiAdapter4.
GetAdapterReturn ==
    /\ pc = "A_enum"
    /\ adapterI > Len(adapters)
    /\ pc' = "A_return"
    /\ UNCHANGED << adapterVars >>
    /\ UNCHANGED << call, ops, renders, g_ClientWidth, g_ClientHeight, g_VSync,
                    g_TearingSupported, g_CurrentBackBufferIndex, g_FenceValue,
                    g_FrameFenceValues, g_BackBuffers, g_CommandList, rtvHeap,
                    commandAllocator, backBuffer, waitValue, loopI, fenceValueForSignal,
                    gpuVars, scVars >>
    /\ UNCHANGED << imageState, waitDuration, waitStatus, winVars, argVars, gameVars, startVars, descVars >>

\* GetAdapter entered on a machine with any of the adapter lists.
InitAdapter ==
    /\ pc = "A_begin"
    /\ argv = << >>
    /\ InitState
    /\ GameIdle
    /\ adapters \in AdapterLists
    /\ adapterI = 1
    /\ maxDedicatedVideoMemory = 0
    /\ dxgiAdapter4 = NoAdapter
    /\ StartupNotBegun

NextAdapter ==
    \/ \E useWarp \in BOOLEAN : GetAdapterBegin(useWarp)
    \/ GetAdapterIteration
    \/ GetAdapterAsFail
    \/ GetAdapterReturn

SpecAdapter == InitAdapter /\ [][NextAdapter]_vars

\* ------------------------------------------------------------ API failure
\* The entry of ops for a call that returned a failure HRESULT.
ApiCalls == { "AllocatorReset", "ListReset", "Close", "Present", "Signal",
              "SetEventOnCompletion", "GetDesc", "ResizeBuffers", "GetBuffer" }
Failed(name) == name \o " failed"
IsFailed(entry) == \E name \in ApiCalls : entry = Failed(name)

\* main.cpp:731  Render assigns Signal's return value to the slot's watermark:
\* when Signal throws there is no return value and the assignment is not made.
WatermarksAfterThrow_Stored(watermarks, slot, value) == [watermarks EXCEPT ![slot] = value]
WatermarksAfterThrow(watermarks, slot, value) == watermarks

\* main.cpp:586-587  Signal when commandQueue->Signal returns a failure
\* HRESULT: ++fenceValue has run, nothing is enqueued, ThrowIfFailed throws.
SignalFail ==
    /\ pc \in {"R_signal", "F_signal"}
    /\ g_FenceValue' = NextFenceValue(g_FenceValue)
    /\ ops' = Append(ops, Failed("Signal"))
    /\ pc' = Thrown
    /\ g_FrameFenceValues' =
          IF pc = "R_signal"
            THEN WatermarksAfterThrow(g_FrameFenceValues, g_CurrentBackBufferIndex, g_FenceValue')
            ELSE g_FrameFenceValues
    /\ UNCHANGED << call, renders, g_ClientWidth, g_ClientHeight, g_VSync,
                    g_TearingSupported, g_CurrentBackBufferIndex,
                    g_BackBuffers, g_CommandList, rtvHeap,
                    commandAllocator, backBuffer, waitValue, loopI, fenceValueForSignal,
                    gpuVars, scVars >>
    /\ UNCHANGED << imageState, waitDuration, waitStatus, winVars, argVars, otherVars >>

\* The calls of Render, Resize and Flush whose HRESULT goes through
\* ThrowIfFailed, by the statement that makes them: main.cpp:717 Close, 729
\* Present, 604 SetEventOnCompletion, 763 GetDesc, 764 ResizeBuffers, 485
\* GetBuffer.
CheckedCallAt ==
    [p \in { "R_close", "R_present", "W_setEvent", "Z_getDesc", "Z_resizeBuffers", "Z_updateRTV" } |->
        CASE p = "R_close" -> "Close"
          [] p = "R_present" -> "Present"
          [] p = "W_setEvent" -> "SetEventOnCompletion"
          [] p = "Z_getDesc" -> "GetDesc"
          [] p = "Z_resizeBuffers" -> "ResizeBuffers"
          [] p = "Z_updateRTV" -> "GetBuffer"]

\* One of them returns a failure HRESULT: ThrowIfFailed throws.
CheckedFail ==
    /\ pc \in DOMAIN CheckedCallAt
    /\ ops' = Append(ops, Failed(CheckedCallAt[pc]))
    /\ pc' = Thrown
    /\ UNCHANGED g_FenceValue
    /\ UNCHANGED << call, renders, g_ClientWidth, g_ClientHeight, g_VSync,
                    g_TearingSupported, g_CurrentBackBufferIndex,
                    g_FrameFenceValues, g_BackBuffers, g_CommandList, rtvHeap,
                    commandAllocator, backBuffer, waitValue, loopI, fenceValueForSignal,
                    gpuVars, scVars >>
    /\ UNCHANGED << imageState, waitDuration, waitStatus, winVars, argVars, otherVars >>

\* main.cpp:684-685  commandAllocator->Reset() and g_CommandList->Reset(...)
\* are plain statements: a failure HRESULT is dropped and Render goes on to
\* its next statement, with the allocator or the list not reset.
UncheckedFail ==
    /\ pc \in { "R_allocReset", "R_listReset" }
    /\ ops' = Append(ops, Failed(IF pc = "R_allocReset" THEN "AllocatorReset" ELSE "ListReset"))
    /\ pc' = IF pc = "R_allocReset" THEN "R_listReset" ELSE "R_record"
    /\ UNCHANGED g_FenceValue
    /\ UNCHANGED << call, renders, g_ClientWidth, g_ClientHeight, g_VSync,
                    g_TearingSupported, g_CurrentBackBufferIndex,
                    g_FrameFenceValues, g_BackBuffers, g_CommandList, rtvHeap,
                    commandAllocator, backBuffer, waitValue, loopI, fenceValueForSignal,
                    gpuVars, scVars >>
    /\ UNCHANGED << imageState, waitDuration, waitStatus, winVars, argVars, otherVars >>

Next ==
    \/ RenderStep
    \/ ResizeStep
    \/ Quit
    \/ CloseHandle
    \/ WaitSetEvent
    \/ WaitBlock
    \/ KeyV
    \/ GpuRetire

Spec == Init /\ [][Next]_vars

\* A run in which the window is never resized.
NextNoResize ==
    \/ RenderStep
    \/ WaitSetEvent
    \/ WaitBlock
    \/ KeyV
    \/ GpuRetire

SpecNoResize == Init /\ [][NextNoResize]_vars

\* The statements the CPU thread executes once a handler has been entered:
\* the thread runs them one after the other, and stops only inside
\* ::WaitForSingleObject while the event is not signalled.
CpuStep ==
    \/ RenderAllocatorReset \/ RenderListReset \/ RenderRecord \/ RenderClose
    \/ RenderExecute \/ RenderPresent \/ RenderSignal \/ RenderGetIndex \/ RenderWait
    \/ FlushSignal \/ FlushWait
    \/ ResizeRelease \/ ResizeGetDesc \/ ResizeBuffers \/ ResizeGetIndex
    \/ UpdateRenderTargetViews
    \/ WaitSetEvent \/ WaitBlock
    \/ CloseHandle

\* A run in which the CPU thread keeps executing and the GPU eventually
\* retires whatever is in its queue.
SpecLive == Spec /\ WF_vars(CpuStep) /\ WF_vars(GpuRetire)

\* The program with its window: key presses, fullscreen switches, the user
\* dragging the window, WM_SIZE delivered before any later message, and
\* WM_QUIT as the message that follows PostQuitMessage.
NextWindow ==
    \/ /\ ~sizePending /\ ~quitPosted
       /\ \/ RenderBegin
          \/ KeyV
          \/ \E key \in Keys, alt \in BOOLEAN : KeyDown(key, alt)
          \/ \E f \in BOOLEAN : SetFullscreenCall(f)
          \/ WmDestroy
          \/ DragWindow
    \/ ~sizePending /\ quitPosted /\ Quit
    \/ WmSize
    \/ RenderAllocatorReset
    \/ RenderListReset
    \/ RenderRecord
    \/ RenderClose
    \/ RenderExecute
    \/ RenderPresent
    \/ RenderSignal
    \/ RenderGetIndex
    \/ RenderWait
    \/ FlushSignal
    \/ FlushWait
    \/ ResizeRelease
    \/ ResizeGetDesc
    \/ ResizeBuffers
    \/ ResizeGetIndex
    \/ UpdateRenderTargetViews
    \/ CloseHandle
    \/ WaitSetEvent
    \/ WaitBlock
    \/ GpuRetire

SpecWindow == Init /\ [][NextWindow]_vars

\* wWinMain's call of ParseCommandLineArguments (main.cpp:894), for every
\* command line of at most MaxArgs arguments.
InitArgs ==
    /\ pc = "P_loop"
    /\ argv \in ArgLists
    /\ InitState
    /\ GameIdle
    /\ AdapterIdle
    /\ StartupNotBegun

NextArgs ==
    \/ ParseIteration
    \/ ParseReturn

SpecArgs == InitArgs /\ [][NextArgs]_vars

\* A run in which the GPU API calls of Render, Resize and Flush may fail.
NextFail ==
    \/ Next
    \/ SignalFail
    \/ CheckedFail
    \/ UncheckedFail

SpecFail == Init /\ [][NextFail]_vars

\* A run of frames in which WaitForFenceValue is also called with a caller's
\* timeout.
NextWait ==
    \/ NextNoResize
    \/ \E v \in { g_FenceValue } \ { 0 }, d \in Durations : TimedWait(v, d)
    \/ WaitTimeout

SpecWait == Init /\ [][NextWait]_vars

TypeOK ==
    /\ pc \in { "idle", "fatal", "R_allocReset", "R_listReset", "R_record",
                "R_close", "R_execute", "R_present", "R_signal", "R_getIndex",
                "R_wait", "W_setEvent", "W_block", "F_signal", "F_wait",
                "Z_release", "Z_getDesc", "Z_resizeBuffers", "Z_getIndex",
                "Z_updateRTV", "S_closeHandle", "done" }
    /\ g_CurrentBackBufferIndex \in Slots
    /\ scIndex \in Slots
    /\ g_FenceValue \in 0 .. MaxFence
    /\ completedValue \in 0 .. g_FenceValue
    /\ g_FrameFenceValues \in [Slots -> 0 .. MaxFence]

\* ------------------------------------------------------ claim vocabulary
Range(seq) == { seq[k] : k \in 1 .. Len(seq) }
IsPrefix(a, b) == Len(a) <= Len(b) /\ SubSeq(b, 1, Len(a)) = a

\* ops without the two calls WaitForFenceValue makes only on its slow path.
IsApiStep(name) == name \notin { "SetEventOnCompletion", "WaitForSingleObject" }
MainOps == SelectSeq(ops, IsApiStep)

Did(name) == name \in Range(ops)
InRender == call.op = "Render"
InResize == call.op = "Resize"

RenderOrder == << "AllocatorReset", "ListReset", "Record", "Close", "Execute",
                  "Present", "Signal", "GetIndex", "Wait" >>
ResizeOrder == << "Signal", "Wait", "Release", "Release", "GetDesc",
                  "ResizeBuffers", "GetIndex", "GetBuffer", "GetBuffer" >>

BatchQueued == \E k \in 1 .. Len(gpuQueue) : gpuQueue[k].kind \in { "batch", "present" }

\* C1: whenever Render is about to reset the command allocator of slot idx,
\* the watermark g_FrameFenceValues[idx] is at most the value the GPU fence
\* has completed, whatever indices the swap chain reported before and however
\* Render and Resize calls were interleaved.
C1_NoResetBeforeCompletion ==
    pc = "R_allocReset" =>
        /\ commandAllocator = g_CurrentBackBufferIndex
        /\ g_FrameFenceValues[commandAllocator] <= completedValue

\* A Render, after at least one Resize, resets a slot that was used before
\* while the GPU still has work of the other slot outstanding.
C1_Witness ==
    /\ pc = "R_allocReset"
    /\ g_FrameFenceValues[commandAllocator] > 0
    /\ completedValue < g_FenceValue
    /\ scSize # << DefaultWidth, DefaultHeight >>

\* C2: with no Resize, every Render signals the fence exactly once, the k-th
\* Render signals and records the value k (so consecutive signalled values
\* differ by exactly 1), and the watermark of the slot a Render starts on has
\* already been reached by the GPU.
C2_FenceStepsByOne ==
    /\ g_FenceValue = (IF InRender /\ ~Did("Signal") THEN renders - 1 ELSE renders)
    /\ (InRender /\ Did("Signal") => g_FrameFenceValues[commandAllocator] = renders)
    /\ (pc = "R_allocReset" => g_FrameFenceValues[commandAllocator] <= completedValue)
    /\ \A i \in Slots : g_FrameFenceValues[i] <= renders

\* The fifth consecutive Render has returned.
C2_Witness ==
    /\ pc = "idle"
    /\ InRender
    /\ renders = 5
    /\ g_FenceValue = 5
    /\ g_FrameFenceValues[commandAllocator] = 5

\* C3: inside Render the operations are issued in the order allocator reset,
\* command-list reset, recording, close, submission, present, fence signal,
\* index re-query, wait; the command list is recorded against the start
\* slot's allocator and is closed when submitted; and the value the signal
\* returned is the watermark of the slot that was current when Render
\* started, not of the re-queried slot.
C3_RenderOrder ==
    InRender =>
        /\ IsPrefix(MainOps, RenderOrder)
        /\ (pc = "idle" => MainOps = RenderOrder)
        /\ (Did("ListReset") => g_CommandList.alloc = commandAllocator)
        /\ (Did("Close") => g_CommandList.state = "closed" /\ Len(g_CommandList.cmds) = 3)
        /\ (Did("Record") /\ ~Did("Close") => g_CommandList.state = "recording")
        /\ (Did("Signal") => g_FrameFenceValues[commandAllocator] = g_FenceValue)
        /\ (Did("Signal") /\ g_CurrentBackBufferIndex # commandAllocator
              => g_FrameFenceValues[g_CurrentBackBufferIndex] < g_FenceValue)

\* A Render has returned after the swap chain moved to the other slot.
C3_Witness ==
    /\ InRender
    /\ pc = "idle"
    /\ g_CurrentBackBufferIndex # commandAllocator
    /\ g_FrameFenceValues[commandAllocator] = g_FenceValue
    /\ g_FrameFenceValues[g_CurrentBackBufferIndex] > 0

\* C4: g_CurrentBackBufferIndex always lies in [0, N); once Render or a
\* size-changing Resize has re-queried it, and whenever the program is back
\* in the message loop, it equals the index the swap chain reports.
C4_IndexIsRequeried ==
    /\ g_CurrentBackBufferIndex \in Slots
    /\ (pc = "idle" \/ Did("GetIndex") => g_CurrentBackBufferIndex = scIndex)

\* A Render has returned and the swap chain reports the slot the Render
\* started on, which is not idx+1 mod N.
C4_Witness ==
    /\ InRender
    /\ pc = "idle"
    /\ g_CurrentBackBufferIndex = commandAllocator
    /\ g_CurrentBackBufferIndex = scIndex

\* C5: the present of a Render carries the tearing flag if and only if vsync
\* is off and tearing is supported.
C5_TearingIffNoVSyncAndSupported ==
    InRender /\ Did("Present") =>
        (lastPresent.flags = AllowTearing <=> (~g_VSync /\ g_TearingSupported))

\* A Render has presented with tearing requested.
C5_Witness ==
    /\ InRender
    /\ Did("Present")
    /\ lastPresent.flags = AllowTearing
    /\ ~g_VSync

\* C6 as stated: every present of a Render that does not request tearing is
\* issued with sync interval 1.
C6_Original ==
    InRender /\ Did("Present") /\ lastPresent.flags = NoFlags => lastPresent.sync = 1

\* C6 amended: a present of a Render that does not request tearing is issued
\* with sync interval 1 when vsync is on; when vsync is off and tearing is
\* unsupported it is issued with sync interval 0 and without the tearing flag.
C6_SyncIntervalFollowsVSync ==
    InRender /\ Did("Present") /\ lastPresent.flags = NoFlags =>
        /\ (g_VSync => lastPresent.sync = 1)
        /\ (~g_VSync => ~g_TearingSupported /\ lastPresent.sync = 0)

\* A Render has presented with vsync off on a display without tearing support.
C6_Witness ==
    /\ InRender
    /\ Did("Present")
    /\ ~g_VSync
    /\ ~g_TearingSupported
    /\ lastPresent = [valid |-> TRUE, sync |-> 0, flags |-> NoFlags]

\* C7: a Resize(w, h) that differs from the current size leaves the client
\* size at (max(1,w), max(1,h)) and reforms the swap chain at exactly that
\* size; neither the client size nor the swap chain ever has a zero dimension.
C7_ResizeClamps ==
    /\ g_ClientWidth >= 1 /\ g_ClientHeight >= 1
    /\ scSize[1] >= 1 /\ scSize[2] >= 1
    /\ (InResize /\ (pc # "idle" \/ ops # << >>) =>
          /\ g_ClientWidth = Max(1, call.w)
          /\ g_ClientHeight = Max(1, call.h)
          /\ (Did("ResizeBuffers") /\ pc # "fatal"
                => scSize = << Max(1, call.w), Max(1, call.h) >>))

\* The first handler run after start-up was Resize(0, 0) on the 1280x720
\* window, and it has returned with a 1x1 swap chain.
C7_Witness ==
    /\ InResize
    /\ call.w = 0 /\ call.h = 0
    /\ pc = "idle"
    /\ Did("ResizeBuffers")
    /\ g_FenceValue = 1 /\ renders = 0
    /\ g_ClientWidth = 1 /\ g_ClientHeight = 1
    /\ scSize = << 1, 1 >>

\* A step in which the window procedure enters Resize with the size that is
\* currently active.
ResizeSameSizeStep ==
    /\ pc = "idle"
    /\ << call, ops >>' # << call, ops >>
    /\ call'.op = "Resize"
    /\ call'.w = g_ClientWidth
    /\ call'.h = g_ClientHeight

\* C8: Resize(w, h) with the currently active size issues no operation at all
\* (no signal, wait, release, reform or re-import) and leaves g_FenceValue,
\* the watermarks, the current index, the client size, the back buffers, the
\* GPU queue and the swap chain unchanged.
C8_ResizeSameSizeIsNoop ==
    [][ ResizeSameSizeStep =>
          /\ ops' = << >>
          /\ pc' = "idle"
          /\ UNCHANGED << g_FenceValue, g_FrameFenceValues,
                          g_CurrentBackBufferIndex, g_ClientWidth,
                          g_ClientHeight, g_BackBuffers, rtvHeap,
                          gpuVars, scVars >> ]_vars

\* A same-size Resize has returned while frames were still in flight.
C8_Witness ==
    /\ InResize
    /\ pc = "idle"
    /\ ops = << >>
    /\ call.w = g_ClientWidth /\ call.h = g_ClientHeight
    /\ g_FenceValue > 0
    /\ completedValue < g_FenceValue

\* C9: in a size-changing Resize the operations are issued in the order
\* flush (signal, wait), N releases, reform, re-query, N re-imports; when the
\* swap chain is reformed the flush has returned with the GPU queue drained
\* and the program holds no reference to a back buffer, so the reform is never
\* refused; a back buffer is held again only after the reform.
C9_ReformAfterFlushAndRelease ==
    InResize =>
        /\ IsPrefix(MainOps, ResizeOrder)
        /\ pc # "fatal"
        /\ (pc = "Z_resizeBuffers" =>
              /\ HeldReferences = 0
              /\ gpuQueue = << >>
              /\ completedValue = g_FenceValue)
        /\ (Did("GetDesc") /\ HeldReferences > 0 => Did("ResizeBuffers"))

\* A Resize that followed at least one Render, and whose flush had to block,
\* is about to reform the swap chain.
C9_Witness ==
    /\ InResize
    /\ pc = "Z_resizeBuffers"
    /\ renders > 0
    /\ Did("WaitForSingleObject")
    /\ HeldReferences = 0

\* Flush has returned to its caller.
FlushReturned ==
    /\ call.op \in { "Resize", "Shutdown" }
    /\ Did("Wait")
    /\ pc \notin { "W_setEvent", "W_block" }

\* C10: when Flush returns, the completed fence value is at least the value
\* Flush signalled, that value equals g_FenceValue, and no batch submitted
\* before the Flush is left in the GPU queue.
C10_FlushDrains ==
    FlushReturned =>
        /\ fenceValueForSignal = g_FenceValue
        /\ completedValue >= fenceValueForSignal
        /\ ~BatchQueued

\* The shutdown Flush has returned after blocking on frames in flight.
C10_Witness ==
    /\ call.op = "Shutdown"
    /\ pc = "S_closeHandle"
    /\ Did("WaitForSingleObject")
    /\ renders >= 2
    /\ completedValue = g_FenceValue

\* ---------------------------------------------------------------------
\* C11  Signal advances the counter by one and enqueues a signal for the new
\* value, in every outcome: the counter has advanced if and only if the signal
\* for that value was enqueued.  Stated on the state: the counter always equals
\* the largest value the queue was told to signal (retired or still queued).
SignalledValues == {gpuQueue[k].value : k \in {j \in DOMAIN gpuQueue : gpuQueue[j].kind = "signal"}}

HighestSignalled == Max(completedValue, SetMax(SignalledValues \cup {0}))

C11_CounterIffEnqueued == g_FenceValue = HighestSignalled

\* ---------------------------------------------------------------------
\* C12  WaitForFenceValue returns at once, registering no event and without
\* blocking, when the fence has already completed the value; otherwise it
\* registers the event for exactly that value and blocks until the event is
\* signalled or the timeout elapses.
WaitCalled == ops' # ops /\ Len(ops') > 0 /\ ops'[Len(ops')] = "Wait"

C12_Step ==
    /\ WaitCalled /\ completedValue >= waitValue' =>
          /\ pc' \notin { "W_setEvent", "W_block" }
          /\ UNCHANGED << eventPending, fenceEvent >>
    /\ WaitCalled /\ completedValue < waitValue' => pc' = "W_setEvent"
    /\ pc = "W_setEvent" /\ pc' # pc =>
          /\ pc' = "W_block"
          /\ \/ completedValue >= waitValue /\ fenceEvent'
             \/ completedValue < waitValue /\ eventPending' = eventPending \cup { waitValue }
    /\ pc = "W_block" /\ pc' # "W_block" =>
          \/ fenceEvent /\ waitStatus' = WaitObject0
          \/ TimeoutMs(waitDuration) # Infinite /\ waitStatus' = WaitTimeoutStatus

C12_WaitFastOrBlock == [][C12_Step]_vars

\* Both paths were taken: a wait has blocked and returned on the event, with
\* the value it registered reached.
C12_Witness ==
    /\ pc = "idle"
    /\ Did("Wait") /\ Did("SetEventOnCompletion") /\ Did("WaitForSingleObject")
    /\ waitStatus = WaitObject0
    /\ completedValue >= waitValue

\* C13  When a finite timeout expires before the fence reaches the value,
\* WaitForFenceValue hands its caller a "not yet reached" result that differs
\* from the result of a wait that reached the value.
WaitReturned == Did("Wait") /\ pc \notin { "W_setEvent", "W_block" }

C13_TimeoutDistinguishable ==
    WaitReturned /\ waitStatus = WaitTimeoutStatus /\ completedValue < waitValue =>
        WaitResult(waitStatus) \notin { WaitResult(NotCalled), WaitResult(WaitObject0) }

\* ---------------------------------------------------------------------
\* C14  SetFullscreen called with the state the window is already in mutates
\* nothing: no style or geometry change, no overwrite of the saved rectangle
\* g_WindowRect, g_Fullscreen unchanged (and no window API call is made).
C14_Step ==
    \A f \in BOOLEAN :
        SetFullscreenCall(f) /\ f = g_Fullscreen =>
            /\ UNCHANGED << g_Fullscreen, g_WindowRect, winRect, winStyle, sizePending >>
            /\ ops' = << >>

C14_SameStateIsNoop == [][C14_Step]_vars

\* SetFullscreen(true) has been called on a window that was already
\* fullscreen, with a saved rectangle that differs from the current one.
C14_Witness ==
    /\ call.op = "SetFullscreen" /\ call.fullscreen
    /\ g_Fullscreen /\ ~sizePending /\ ops = << >>
    /\ g_WindowRect = DraggedRect /\ winRect = MonitorRect

\* C15  Entering fullscreen saves the window's rectangle, nothing overwrites
\* the saved rectangle while the window is fullscreen (Render and Resize
\* included), and leaving fullscreen puts the window back on exactly the saved
\* rectangle with its decorations, however often the switch is repeated.
C15_Step ==
    /\ ~g_Fullscreen /\ g_Fullscreen' => g_WindowRect' = winRect
    /\ g_Fullscreen /\ g_Fullscreen' => g_WindowRect' = g_WindowRect
    /\ g_Fullscreen /\ ~g_Fullscreen' =>
          winRect' = g_WindowRect /\ winStyle' = OverlappedWindow

C15_RoundTripRestoresRect == [][C15_Step]_vars

\* The window has just left fullscreen for the stretched rectangle it had
\* before, after frames were rendered and the swap chain had been resized
\* (the client size is still the one Resize stored).
C15_Witness ==
    /\ ~g_Fullscreen /\ sizePending
    /\ ops = << "SetWindowLong", "SetWindowPos", "ShowWindow" >>
    /\ winRect = DraggedRect /\ g_WindowRect = DraggedRect
    /\ renders >= 2
    /\ g_ClientWidth = RectWidth(MonitorRect) /\ scSize[1] = g_ClientWidth

\* C16  SetFullscreen signals no fence, flushes nothing and does not reform
\* the swap chain; the swap chain changes size only inside Resize, reached
\* through WM_SIZE with the window's client size; and when the switch leaves
\* the client size as it was, the WM_SIZE that follows changes nothing.
RenderState == << g_FenceValue, g_FrameFenceValues, g_BackBuffers, rtvHeap,
                 g_CurrentBackBufferIndex, g_ClientWidth, g_ClientHeight,
                 gpuVars, scVars, pc >>

C16_Step ==
    /\ (\E f \in BOOLEAN : SetFullscreenCall(f)) => UNCHANGED RenderState
    /\ (\E key \in Keys, alt \in BOOLEAN : KeyDown(key, alt)) => UNCHANGED RenderState
    /\ scSize' # scSize =>
          /\ pc = "Z_resizeBuffers" /\ call.op = "Resize"
          /\ call.w = RectWidth(winRect) - (IF g_Fullscreen THEN 0 ELSE FrameWidth)
          /\ scSize' = << g_ClientWidth, g_ClientHeight >>
    /\ ( /\ pc = "idle" /\ sizePending /\ ~sizePending'
         /\ g_Fullscreen /\ g_WindowRect = DraggedRect
         /\ g_ClientWidth = RectWidth(MonitorRect)
         /\ g_ClientHeight = RectHeight(MonitorRect) ) => UNCHANGED RenderState

C17_Step ==
    /\ KeyV =>
          /\ g_VSync' = ~g_VSync
          /\ UNCHANGED << winVars, RenderState >>
    /\ \A key \in Keys, alt \in BOOLEAN :
          KeyDown(key, alt) =>
            /\ UNCHANGED g_VSync
            /\ quitPosted' = (quitPosted \/ key = "VK_ESCAPE")
            /\ (g_Fullscreen' # g_Fullscreen) <=>
                  (key = "VK_F11" \/ (key = "VK_RETURN" /\ alt))

C17_KeyBindings == [][C17_Step]_vars

\* F11 pressed without Alt has just put the window into fullscreen.
C17_Witness ==
    /\ call.op = "KeyDown" /\ call.key = "VK_F11" /\ ~call.alt
    /\ g_Fullscreen /\ sizePending

\* ---------------------------------------------------------------------
\* C18  A width or height flag whose value is missing (the flag is the last
\* argument) or is not a valid integer leaves that dimension at its default,
\* 1280 or 720; the adapter stays hardware unless a warp flag is given.
IsInteger(t) == t # << >> /\ \A k \in 1 .. Len(t) : IsDigit(t[k])

WidthGiven == \E k \in 1 .. Len(argv) - 1 : IsWidthFlag(argv[k]) /\ IsInteger(argv[k + 1])
HeightGiven == \E k \in 1 .. Len(argv) - 1 : IsHeightFlag(argv[k]) /\ IsInteger(argv[k + 1])
WarpGiven == \E k \in 1 .. Len(argv) : IsWarpFlag(argv[k])

C18_BadValueKeepsDefault ==
    pc = "parsed" =>
        /\ ~WidthGiven => g_ClientWidth = DefaultWidth
        /\ ~HeightGiven => g_ClientHeight = DefaultHeight
        /\ g_UseWarp <=> WarpGiven

\* ---------------------------------------------------------------------
\* C19  The command list is closed in every state outside Render's recording
\* (from its list reset to its Close), so every list reset and every
\* submission acts on a closed list; and the list Render records and submits
\* was reset against the allocator of the slot that was current when that
\* Render began.
Recording == pc \in { "R_record", "R_close" }

C19_ListClosedOutsideRender ==
    /\ ~Recording => g_CommandList.state = "closed"
    /\ Recording => InRender /\ g_CommandList.state = "recording"
    /\ pc \in { "R_record", "R_close", "R_execute", "R_present", "R_signal" } =>
          /\ g_CommandList.alloc = g_CurrentBackBufferIndex
          /\ g_CommandList.alloc = commandAllocator

\* A second frame is about to submit its list: closed again, recorded with
\* the allocator of the slot chosen at this Render's start, which differs
\* from the slot the list was created or last reset with.
C19_Witness ==
    /\ pc = "R_execute" /\ renders >= 2
    /\ g_CommandList.state = "closed" /\ Len(g_CommandList.cmds) = 3
    /\ g_CommandList.alloc = g_CurrentBackBufferIndex
    /\ \E k \in 1 .. Len(gpuQueue) :
          gpuQueue[k].kind = "batch" /\ gpuQueue[k].slot # g_CommandList.alloc

\* ---------------------------------------------------------------------
\* C20  Every batch Render submits is exactly: transition the back buffer
\* PRESENT -> RENDER_TARGET, clear it, transition it RENDER_TARGET -> PRESENT;
\* each transition's declared before-state is the image's actual state when
\* the GPU executes it (and the clear finds a render target); every back
\* buffer is in the PRESENT state when its present is processed.
FrameCommands(image) ==
    << [cmd |-> "barrier", image |-> image, before |-> "PRESENT", after |-> "RENDER_TARGET"],
       [cmd |-> "clear", image |-> image, before |-> "RENDER_TARGET", after |-> "RENDER_TARGET"],
       [cmd |-> "barrier", image |-> image, before |-> "RENDER_TARGET", after |-> "PRESENT"] >>

C20_BatchShapeAndStates ==
    /\ \A k \in 1 .. Len(gpuQueue) :
          gpuQueue[k].kind = "batch" =>
              /\ gpuQueue[k].cmds = FrameCommands(gpuQueue[k].slot)
              /\ k < Len(gpuQueue) =>
                    gpuQueue[k + 1].kind = "present" /\ gpuQueue[k + 1].slot = gpuQueue[k].slot
    /\ pc = "R_execute" => g_CommandList.cmds = FrameCommands(g_CurrentBackBufferIndex)
    /\ gpuQueue # << >> /\ Head(gpuQueue).kind = "batch" =>
          LET item == Head(gpuQueue)
              cmd == item.cmds[item.next]
          IN  /\ item.next \in 1 .. Len(item.cmds)
              /\ imageState[cmd.image] = cmd.before
    /\ gpuQueue # << >> /\ Head(gpuQueue).kind = "present" =>
          imageState[Head(gpuQueue).slot] = "PRESENT"
    /\ \A i \in Slots :
          imageState[i] = "RENDER_TARGET" =>
              /\ gpuQueue # << >> /\ Head(gpuQueue).kind = "batch"
              /\ Head(gpuQueue).slot = i /\ Head(gpuQueue).next > 1

\* The GPU is in the middle of a later frame's batch: the image is a render
\* target and the transition back to PRESENT is the next command.
C20_Witness ==
    /\ renders >= 2
    /\ gpuQueue # << >> /\ Head(gpuQueue).kind = "batch" /\ Head(gpuQueue).next = 3
    /\ imageState[Head(gpuQueue).slot] = "RENDER_TARGET"
    /\ Did("ResizeBuffers") \/ scSize # << DefaultWidth, DefaultHeight >>

\* ---------------------------------------------------------------------
\* C21  Whenever Render returns, at most g_NumFrames - 1 = 1 signalled fence
\* value has not yet been reached by the GPU, whatever back-buffer indices the
\* swap chain reported and however Resize calls were interleaved.
RenderReturned == InRender /\ pc = "idle" /\ Did("Wait")

Unreached == g_FenceValue - completedValue

C21_LatencyBound == RenderReturned => Unreached <= g_NumFrames - 1

\* Render has returned after a swap-chain resize with its own signal still
\* unreached: the bound is attained.
C21_Witness ==
    /\ RenderReturned /\ Unreached = 1
    /\ renders >= 3
    /\ scSize # << DefaultWidth, DefaultHeight >>

\* ---------------------------------------------------------------------
\* C22  Once the message loop has seen the quit message the program flushes
\* the queue, and the fence event handle is closed (and wWinMain returns,
\* letting the GPU objects go) only when the GPU has reached the last fence
\* value signalled and the queue is empty; no Render or Resize runs after
\* the loop has ended.
ShuttingDown == call.op = "Shutdown"

C22_Step ==
    /\ ShuttingDown => ShuttingDown' /\ renders' = renders /\ UNCHANGED scVars
    /\ pc' \in { "S_closeHandle", "done" } =>
          /\ ShuttingDown'
          /\ completedValue' = g_FenceValue' /\ gpuQueue' = << >>
          /\ IsPrefix(<< "Signal", "Wait" >>, MainOps')
    /\ pc' = "done" => MainOps' = << "Signal", "Wait", "CloseHandle" >>

C22_ShutdownOrder == [][C22_Step]_vars

\* wWinMain has returned after a flush that had to block: frames were still
\* queued when the loop ended.
C22_Witness ==
    /\ pc = "done" /\ renders >= 2
    /\ Did("WaitForSingleObject")
    /\ completedValue = g_FenceValue /\ g_FenceValue >= 3

\* ---------------------------------------------------------------------
\* C23  No Resize runs between the submit and the present of a Render, nor
\* anywhere else inside one: a Resize call starts only when no handler is
\* running, and when Resize releases the back-buffer handles every submitted
\* frame has been presented and the flush has drained the queue.
RenderRunning == pc \in { "R_allocReset", "R_listReset", "R_record", "R_close", "R_execute",
                          "R_present", "R_signal", "R_getIndex", "R_wait" }

EveryBatchPresented ==
    \A k \in 1 .. Len(gpuQueue) :
        gpuQueue[k].kind = "batch" =>
            k < Len(gpuQueue) /\ gpuQueue[k + 1].kind = "present"

C23_Step ==
    /\ RenderRunning => InRender' /\ ~InResize'
    /\ InResize' /\ (call' # call \/ (ops' = << >> /\ ops # << >>)) =>
          pc = "idle" /\ EveryBatchPresented
    /\ pc = "R_present" /\ pc' # pc => pc' = "R_signal" /\ Did("Present")'
    /\ pc = "Z_release" =>
          /\ InResize /\ FlushReturned
          /\ gpuQueue = << >> /\ completedValue = g_FenceValue

C23_NoResizeInsideRender == [][C23_Step]_vars

\* Resize is releasing the handles right after a Render whose frame had not
\* been retired when the Resize call arrived.
C23_Witness ==
    /\ pc = "Z_release" /\ InResize
    /\ renders >= 2 /\ lastPresent.valid
    /\ Did("WaitForSingleObject")
    /\ g_FenceValue = g_FrameFenceValues[g_CurrentBackBufferIndex] + 2


\* C24: every failing GPU API call made during Render, Resize or Flush is
\* fatal at the point of the failure: the failed call is the last call of its
\* operation and the program has stopped there.
C24_FailureIsFatal ==
    \A k \in 1..Len(ops) :
        IsFailed(ops[k]) => k = Len(ops) /\ pc = "fatal"


\* C25: when the queue's signal fails inside Render the failure is fatal: the
\* slot's watermark is not updated, the current index is not re-queried, no
\* wait is performed and the signal is not retried.
SignalFailedInRender == InRender /\ ops # << >> /\ ops[Len(ops)] = Failed("Signal")

C25_Step ==
    /\ pc = "R_signal" /\ ops' = Append(ops, Failed("Signal")) =>
          /\ pc' = "fatal"
          /\ UNCHANGED << g_FrameFenceValues, g_CurrentBackBufferIndex, waitValue, gpuQueue >>
    /\ SignalFailedInRender =>
          /\ pc = "fatal" /\ pc' = "fatal"
          /\ UNCHANGED << ops, call, g_FenceValue, g_FrameFenceValues,
                          g_CurrentBackBufferIndex, waitValue, waitStatus >>

C25_SignalFailureIsFatal == [][C25_Step]_vars

C25_Witness ==
    /\ SignalFailedInRender /\ pc = "fatal"
    /\ renders >= 2
    /\ g_FrameFenceValues[g_CurrentBackBufferIndex] < g_FenceValue - 1
    /\ completedValue = g_FenceValue - 1 /\ gpuQueue = << >>


\* ---------------------------------------------------------------------
\* C26: GameBase::Initialize, when the CPU math-support check fails, reports
\* the error and returns false without creating a render window, registering
\* callbacks or showing a window; when the check passes it creates the
\* window, registers the callbacks, shows it and returns true.
C26_Step ==
    GameInitialize =>
        IF cpuSupport
          THEN /\ gameResult' = "true"
               /\ gameOps' = << "CreateRenderWindow", "RegisterCallbacks", "Show" >>
               /\ Len(windows') = Len(windows) + 1
               /\ m_pWindow' = Len(windows')
               /\ LET window == windows'[m_pWindow'] IN
                     /\ window.callbacks /\ window.shown /\ ~window.destroyed
                     /\ << window.width, window.height, window.vSync >> = << m_Width, m_Height, m_vSync >>
          ELSE /\ gameResult' = "false"
               /\ gameOps' = << "MessageBox" >>
               /\ UNCHANGED << windows, m_pWindow >>

C26_InitializeContract == [][C26_Step]_vars

C26_Witness ==
    /\ ~cpuSupport
    /\ gameResult = "false" /\ gameOps = << "MessageBox" >>
    /\ windows = << >> /\ m_pWindow = NoWindow
    /\ << m_Width, m_Height >> # << DefaultWidth, DefaultHeight >>


\* ---------------------------------------------------------------------
\* C27: after startup and after every size-changing Resize all g_NumFrames
\* back-buffer handles are non-empty, slot i holds image i of the current
\* image set and view i is built for that image; Render never uses a handle
\* or a view from before the latest resize.
RebuildingViews == pc \in { "Z_release", "Z_getDesc", "Z_resizeBuffers", "Z_getIndex", "Z_updateRTV" }

HandlesCurrent ==
    \A i \in Slots :
        /\ g_BackBuffers[i].valid /\ g_BackBuffers[i] = ImageHandle(i)
        /\ rtvHeap[i] = g_BackBuffers[i]

C27_HandlesMatchImages ==
    /\ ~RebuildingViews => HandlesCurrent
    /\ pc \in { "R_allocReset", "R_listReset", "R_record" } =>
          /\ backBuffer = ImageHandle(g_CurrentBackBufferIndex)
          /\ rtvHeap[g_CurrentBackBufferIndex] = backBuffer
    /\ pc = "Z_updateRTV" =>
          /\ \A i \in Slots : i < loopI => g_BackBuffers[i] = ImageHandle(i) /\ rtvHeap[i] = ImageHandle(i)
          /\ \A i \in Slots : i >= loopI => g_BackBuffers[i] = NullHandle /\ rtvHeap[i] = NullHandle

C27_Witness ==
    /\ pc = "R_record" /\ InRender
    /\ scSize # << DefaultWidth, DefaultHeight >>
    /\ g_CurrentBackBufferIndex = 1
    /\ backBuffer = ImageHandle(1) /\ rtvHeap[1] = ImageHandle(1)
    /\ renders >= 2


\* ---------------------------------------------------------------------
\* C28: without the warp flag GetAdapter returns, among the enumerated
\* non-software adapters that can create a device, the one with the strictly
\* largest dedicated video memory, the first of them on ties; an adapter with
\* zero dedicated memory is never chosen; when none qualifies the result is
\* empty.
Qualifying == { i \in 1..Len(adapters) : ~adapters[i].software /\ adapters[i].canCreate }
Largest(S) == { i \in S : \A j \in S : adapters[j].memory <= adapters[i].memory }
First(S) == CHOOSE i \in S : \A j \in S : i <= j
HardwareResult == pc = "A_return" /\ dxgiAdapter4.kind # "warp"

C28_LargestMemoryFirstOnTies ==
    HardwareResult =>
        /\ dxgiAdapter4.kind = "enum" =>
              /\ dxgiAdapter4.index = First(Largest(Qualifying))
              /\ adapters[dxgiAdapter4.index].memory > 0
        /\ Qualifying = { } => dxgiAdapter4 = NoAdapter
        /\ dxgiAdapter4 = NoAdapter => \A i \in Qualifying : adapters[i].memory = 0

C28_Witness ==
    /\ HardwareResult
    /\ Len(adapters) = 3
    /\ dxgiAdapter4 = EnumAdapter(2)
    /\ adapters[1].memory = 2 /\ adapters[1].software
    /\ adapters[2].memory = 1 /\ adapters[3].memory = 1 /\ 3 \in Qualifying


\* ---------------------------------------------------------------------
\* C29: g_FenceValue never decreases; the fence's completed value never
\* exceeds it; every slot watermark is at most g_FenceValue and is 0 or a
\* value a Signal call returned.
WatermarksBounded ==
    /\ completedValue <= g_FenceValue
    /\ \A i \in Slots : g_FrameFenceValues[i] >= 0 /\ g_FrameFenceValues[i] <= g_FenceValue

C29_Step ==
    /\ g_FenceValue' >= g_FenceValue
    /\ WatermarksBounded /\ WatermarksBounded'
    /\ \A i \in Slots :
          g_FrameFenceValues'[i] # g_FrameFenceValues[i] =>
              \/ /\ pc = "R_signal" /\ Did("Signal")'
                 /\ g_FenceValue' = g_FenceValue + 1
                 /\ g_FrameFenceValues'[i] = g_FenceValue'
              \/ \E j \in Slots : g_FrameFenceValues'[i] = g_FrameFenceValues[j]

C29_FenceMonotone == [][C29_Step]_vars

C29_Witness ==
    /\ g_FenceValue >= 4
    /\ completedValue < g_FenceValue
    /\ g_FrameFenceValues[0] # g_FrameFenceValues[1]
    /\ \A i \in Slots : g_FrameFenceValues[i] > 1
    /\ InResize /\ pc = "idle" /\ scSize # << DefaultWidth, DefaultHeight >>


\* ---------------------------------------------------------------------
\* C30: every value the CPU waits on, in Render, Resize or at shutdown, has
\* already been enqueued as a signal; so when the GPU eventually retires all
\* submitted work, every Render, Resize and Flush call eventually returns.
Waiting == pc \in { "W_setEvent", "W_block" }
Returned == pc \in { "idle", "S_closeHandle", "done" }

C30_EveryCallReturns ==
    /\ [](Waiting => waitValue <= HighestSignalled)
    /\ (~Returned ~> Returned)

C30_Witness ==
    /\ pc = "W_block" /\ ~fenceEvent
    /\ completedValue < waitValue /\ waitValue \in SignalledValues
    /\ InResize /\ renders >= 2
    /\ Len(gpuQueue) >= 3


\* ---------------------------------------------------------------------
\* C31: after every Resize that changes the size, all slot watermarks equal
\* the watermark the current slot held when Resize was called, each is at
\* most the completed fence value, and the value the resize's own flush
\* signalled is stored in no slot.
CurrentWatermark == g_FrameFenceValues[g_CurrentBackBufferIndex]
WatermarksEqual == \A i \in Slots : g_FrameFenceValues[i] = CurrentWatermark
ResizeReturned == InResize /\ pc = "idle" /\ Did("ResizeBuffers")

C31_Step ==
    /\ InResize' /\ pc' \in { "F_signal", "F_wait", "W_setEvent", "W_block",
                              "Z_release", "Z_getDesc", "Z_resizeBuffers", "Z_getIndex" } =>
          /\ g_CurrentBackBufferIndex' = g_CurrentBackBufferIndex
          /\ CurrentWatermark' = CurrentWatermark
    /\ InResize /\ pc \in { "Z_getDesc", "Z_resizeBuffers", "Z_getIndex", "Z_updateRTV" } =>
          /\ WatermarksEqual
          /\ g_FrameFenceValues' = g_FrameFenceValues
    /\ ResizeReturned' =>
          /\ WatermarksEqual'
          /\ \A i \in Slots : /\ g_FrameFenceValues'[i] <= completedValue'
                                /\ g_FrameFenceValues'[i] # fenceValueForSignal'
          /\ fenceValueForSignal' = g_FenceValue'

C31_WatermarksAfterResize == [][C31_Step]_vars

C31_Witness ==
    /\ ResizeReturned
    /\ WatermarksEqual /\ CurrentWatermark >= 2
    /\ g_FenceValue = CurrentWatermark + 1
    /\ renders >= 3


\* ---------------------------------------------------------------------
\* C32: Resize is idempotent for every requested size, sizes with a zero
\* dimension included: of two consecutive Resize(w, h) calls with the same
\* arguments the second performs no flush and no image recreation.
C32_Step ==
    pc = "idle" /\ InResize /\ call' = call =>
        /\ pc' = "idle"
        /\ g_FenceValue' = g_FenceValue
        /\ UNCHANGED << g_BackBuffers, rtvHeap, scSize >>

C32_ResizeIdempotent == [][C32_Step]_vars


\* ---------------------------------------------------------------------
\* C33: while g_IsInitialized is false the window procedure runs no Render,
\* no Resize, no fullscreen toggle and no vsync toggle for any message;
\* g_IsInitialized becomes true only after the device, queue, swap chain,
\* back buffers, allocators, command list, fence and fence event all exist,
\* and it never returns to false.
RequiredObjects == { "Device", "CommandQueue", "SwapChain", "BackBuffers",
                     "Allocators", "CommandList", "Fence", "FenceEvent" }

C33_Step ==
    /\ ~g_IsInitialized =>
          /\ call' = call /\ ops' = ops /\ pc' = "idle"
          /\ renders' = 0
          /\ UNCHANGED << g_VSync, g_Fullscreen, g_ClientWidth, g_ClientHeight,
                          g_FenceValue, gpuQueue, scVars, winRect, winStyle >>
    /\ g_IsInitialized' => RequiredObjects \subseteq Created'
    /\ g_IsInitialized => g_IsInitialized'

C33_NoHandlerBeforeInitialized == [][C33_Step]_vars

C33_Witness ==
    /\ g_IsInitialized /\ message = "WM_SIZE"
    /\ InRender /\ pc = "R_present"
    /\ startupI = Len(StartupOrder)


\* ---------------------------------------------------------------------
\* C34: a Resize that changes the size leaves unchanged the swap chain's
\* image count, its format and its creation flags (the tear-allowed flag is
\* set at creation if and only if tearing is supported), and also the vsync
\* flag, the fullscreen flag and the saved window rectangle.
C34_Step ==
    /\ InResize' =>
          /\ scDesc' = scDesc
          /\ UNCHANGED << g_VSync, g_Fullscreen, g_WindowRect, g_TearingSupported >>
    /\ scDesc.count = g_NumFrames
    /\ scDesc.format = "DXGI_FORMAT_R8G8B8A8_UNORM"
    /\ scDesc.flags = CreationAllowTearing <=> g_TearingSupported

C34_ResizeKeepsDescription == [][C34_Step]_vars

C34_Witness ==
    /\ ResizeReturned
    /\ g_Fullscreen /\ ~g_VSync /\ g_TearingSupported
    /\ g_WindowRect = CreatedRect /\ winRect = MonitorRect
    /\ scSize = << RectWidth(MonitorRect), RectHeight(MonitorRect) >>
    /\ scDesc = CreatedDesc(g_NumFrames, TRUE) /\ swapChainDesc = scDesc


\* ---------------------------------------------------------------------
\* C35: the assertion in GameBase's destructor holds exactly when the object
\* holds no window: destruction is assertion-free if and only if Destroy was
\* called after the last Initialize that created a window (or none created
\* one), and after Destroy the window pointer is empty.
HoldsWindow == m_pWindow # NoWindow

C35_Step ==
    /\ GameInitialize => (HoldsWindow' <=> (gameResult' = "true" \/ HoldsWindow))
    /\ GameInitialize /\ gameResult' = "true" => HoldsWindow'
    /\ GameDestroy => ~HoldsWindow'
    /\ (\E size \in GameSizes : GameOnResize(size[1], size[2])) => UNCHANGED m_pWindow
    /\ GameDestructor =>
          /\ gameResult' = "assertion failed" <=> HoldsWindow
          /\ gameResult' = "destructed" <=> ~HoldsWindow
    /\ ~GameAlive => UNCHANGED gameVars

C35_AssertIffWindowHeld == [][C35_Step]_vars

C35_Witness ==
    /\ gameResult = "destructed"
    /\ Len(windows) = 2 /\ windows[2].destroyed /\ ~windows[1].destroyed
    /\ ~HoldsWindow


\* ---------------------------------------------------------------------
\* C36: every call of WaitForFenceValue in the program uses the default
\* timeout, and that default, truncated to the 32-bit argument of the OS
\* wait, is 0xFFFFFFFF, the wait-forever value; in general a timeout of d
\* milliseconds reaches the OS wait as d mod 2^32.
ProgramWait == call.op \in { "Render", "Resize", "Shutdown" } /\ Did("Wait")

\* t is d mod 2^32: d = q * 2^32 + t for the q made of d's two high limbs,
\* with t below 2^32.
IsMod32(d, t) ==
    /\ t[1] \in 0..Limb /\ t[2] \in 0..Limb
    /\ << d[1], d[2], t[1], t[2] >> = d

C36_TimeoutTruncated ==
    /\ ProgramWait => waitDuration = MillisecondsMax
    /\ waitDuration = MillisecondsMax => TimeoutMs(waitDuration) = Infinite
    /\ IsMod32(waitDuration, TimeoutMs(waitDuration))

C36_Witness ==
    /\ pc = "W_block" /\ ~fenceEvent
    /\ call.op = "WaitForFenceValue"
    /\ waitDuration = << 0, 1, 0, 0 >>
    /\ TimeoutMs(waitDuration) = << 0, 0 >>
    /\ renders >= 1

====
